---------------------------- MODULE Spec2Model ----------------------------
(***************************************************************************)
(* Message resolution and interpolation engine of go-valkit                *)
(* (package validator).                                                    *)
(*                                                                         *)
(* Go strings are modelled as sequences of one-character strings, so that  *)
(* trimming, replacing and pattern matching are computed character by      *)
(* character as the library routines do.                                   *)
(***************************************************************************)
EXTENDS Integers, Sequences, FiniteSets, TLC

VARIABLES
    npIn,       \* normalizePath: the path handed to the function
    npOut,      \* normalizePath(npIn)
    npIn2,      \* a second path handed to normalizePath
    npOut2,     \* normalizePath(npIn2)
    npPc,       \* which calls have returned
    ipPieces,   \* interpolateParams: the pieces the template is written from
    ipParams,   \* the positional parameters (params []interface{})
    ipCustom,   \* the custom parameter overlays (name -> value), in order
    ipOut,      \* the string interpolateParams returned
    ipPc,       \* whether the call has returned
    validators, \* the *Validator values, in the order they were created
    tables,     \* the ValidationMessages maps, in the order they were made
    last,       \* the ValidateCtx or ResolveMessage call that has returned
                \* and what it returned, until the caller has read it
    written,    \* history: for a table, key and constraint ("" for the path
                \* default), the template of the most recent SetMessage or
                \* SetDefaultMessage call and the templates of the earlier ones
    nCalls,     \* number of configuration calls made so far
    engines,    \* the *govalidator.Validate values: what has been registered
                \* with each
    paramLog,   \* history: for each validator the AddCustomParam and
                \* RemoveCustomParam calls that made its CustomParams, in order
    call        \* a call of GroupErrorsByPath, ErrorsForPath, getRawTagMessage
                \* or getStructFieldFromNamespace: its arguments and its result

npVars == <<npIn, npOut, npIn2, npOut2, npPc>>

ipVars == <<ipPieces, ipParams, ipCustom, ipOut, ipPc>>

vaVars == <<validators, tables, last, written, nCalls, engines, paramLog>>

heVars == <<call>>

vars == <<npVars, ipVars, vaVars, heVars>>

-----------------------------------------------------------------------------
(* Bounds of the model *)

\* number of pieces an input path of normalizePath is built from
MaxPieces == 4

\* number of pieces a template handed to interpolateParams is built from
MaxTemplatePieces == 2

\* number of configuration calls (setters, UseMessages, ...) in a run
MaxCalls == 2

\* number of Validator values in a run
MaxValidators == 2

\* longest ValidationErrors value handed to the functions of errors.go
MaxErrors == 3

\* most segments of a namespace after its root segment
MaxSegments == 3

-----------------------------------------------------------------------------
(* Characters and string helpers (Go's strings / unicode / regexp packages) *)

Digits == {"0", "1", "2", "3", "4", "5", "6", "7", "8", "9"}

\* the characters unicode.IsSpace accepts that the model's inputs can hold
Whitespace == {" ", "\t", "\n"}

IsDigit(c) == c \in Digits

IsSpace(c) == c \in Whitespace

\* s[i..] starts with p
HasPrefixAt(s, i, p) ==
    /\ i + Len(p) - 1 <= Len(s)
    /\ Len(p) > 0 => s[i] = p[1]
    /\ SubSeq(s, i, i + Len(p) - 1) = p

RECURSIVE FirstNonSpace(_, _)
FirstNonSpace(s, i) ==
    IF i > Len(s) THEN i
    ELSE IF IsSpace(s[i]) THEN FirstNonSpace(s, i + 1) ELSE i

RECURSIVE LastNonSpace(_, _)
LastNonSpace(s, i) ==
    IF i < 1 THEN i
    ELSE IF IsSpace(s[i]) THEN LastNonSpace(s, i - 1) ELSE i

\* strings.TrimSpace: drops leading and trailing white space of every kind
TrimSpace(s) == SubSeq(s, FirstNonSpace(s, 1), LastNonSpace(s, Len(s)))

\* strings.Replace(s, old, new, -1) for a non-empty old: leftmost,
\* non-overlapping occurrences, the inserted text is not rescanned
RECURSIVE ReplaceAllFrom(_, _, _, _)
ReplaceAllFrom(s, i, old, new) ==
    IF i > Len(s) THEN <<>>
    ELSE IF HasPrefixAt(s, i, old)
         THEN new \o ReplaceAllFrom(s, i + Len(old), old, new)
         ELSE <<s[i]>> \o ReplaceAllFrom(s, i + 1, old, new)

ReplaceAll(s, old, new) == ReplaceAllFrom(s, 1, old, new)

\* first index >= i of s that holds no digit (Len(s) + 1 if none)
RECURSIVE DigitRunEnd(_, _)
DigitRunEnd(s, i) ==
    IF i > Len(s) THEN i
    ELSE IF IsDigit(s[i]) THEN DigitRunEnd(s, i + 1) ELSE i

\* the pattern \[\d+\] matches at i: returns the index of the closing
\* bracket, 0 when there is no match at i
IndexMatchEnd(s, i) ==
    IF i <= Len(s) /\ s[i] = "["
    THEN LET e == DigitRunEnd(s, i + 1)
         IN  IF e > i + 1 /\ e <= Len(s) /\ s[e] = "]" THEN e ELSE 0
    ELSE 0

\* regexp.MustCompile(`\[\d+\]`).ReplaceAllString(s, "[]")
RECURSIVE ReplaceIndicesFrom(_, _)
ReplaceIndicesFrom(s, i) ==
    IF i > Len(s) THEN <<>>
    ELSE LET e == IndexMatchEnd(s, i)
         IN  IF e > 0
             THEN <<"[", "]">> \o ReplaceIndicesFrom(s, e + 1)
             ELSE <<s[i]>> \o ReplaceIndicesFrom(s, i + 1)

ReplaceIndices(s) == ReplaceIndicesFrom(s, 1)

\* first index >= i of s that holds no dot
RECURSIVE DotRunEnd(_, _)
DotRunEnd(s, i) ==
    IF i > Len(s) THEN i
    ELSE IF s[i] = "." THEN DotRunEnd(s, i + 1) ELSE i

\* regexp.MustCompile(`\.+`).ReplaceAllString(s, ".")
RECURSIVE CollapseDotsFrom(_, _)
CollapseDotsFrom(s, i) ==
    IF i > Len(s) THEN <<>>
    ELSE IF s[i] = "."
         THEN <<".">> \o CollapseDotsFrom(s, DotRunEnd(s, i))
         ELSE <<s[i]>> \o CollapseDotsFrom(s, i + 1)

CollapseDots(s) == CollapseDotsFrom(s, 1)

-----------------------------------------------------------------------------
(* More string helpers: strings.Split, strings.SplitN and \w *)

Letters ==
    {"a", "b", "c", "d", "e", "f", "g", "h", "i", "j", "k", "l", "m",
     "n", "o", "p", "q", "r", "s", "t", "u", "v", "w", "x", "y", "z",
     "A", "B", "C", "D", "E", "F", "G", "H", "I", "J", "K", "L", "M",
     "N", "O", "P", "Q", "R", "S", "T", "U", "V", "W", "X", "Y", "Z"}

\* the class \w of regexp
IsWord(c) == c \in Letters \cup Digits \cup {"_"}

\* first index >= i of s that holds a dot (Len(s) + 1 if none)
RECURSIVE NextDot(_, _)
NextDot(s, i) ==
    IF i > Len(s) THEN i
    ELSE IF s[i] = "." THEN i ELSE NextDot(s, i + 1)

\* strings.Split(s, "."): the parts between the dots, one part for a string
\* without a dot
RECURSIVE SplitDotsFrom(_, _)
SplitDotsFrom(s, i) ==
    LET d == NextDot(s, i)
    IN  IF d > Len(s) THEN <<SubSeq(s, i, Len(s))>>
        ELSE <<SubSeq(s, i, d - 1)>> \o SplitDotsFrom(s, d + 1)

SplitDots(s) == SplitDotsFrom(s, 1)

\* strings.SplitN(s, ".", 2): s cut at its first dot
SplitFirstDot(s) ==
    LET d == NextDot(s, 1)
    IN  IF d > Len(s) THEN <<s>>
        ELSE <<SubSeq(s, 1, d - 1), SubSeq(s, d + 1, Len(s))>>

\* first index >= i of s that holds no \w character
RECURSIVE WordRunEnd(_, _)
WordRunEnd(s, i) ==
    IF i > Len(s) THEN i
    ELSE IF IsWord(s[i]) THEN WordRunEnd(s, i + 1) ELSE i

-----------------------------------------------------------------------------
(* utils.go: normalizePath *)

\* a faulty variant: the indices are replaced before the spaces are removed
normalizePath_IndicesFirst(path) ==
    LET trimmed == TrimSpace(path)
    IN  IF trimmed = <<>> THEN <<>>
        ELSE CollapseDots(ReplaceAll(ReplaceIndices(trimmed), <<" ">>, <<>>))

\* a faulty variant: only the first index of the path is made generic
normalizePath_FirstIndexOnly(path) ==
    LET trimmed == TrimSpace(path)
        nospace == ReplaceAll(trimmed, <<" ">>, <<>>)
        first   == CHOOSE i \in 1..(Len(nospace) + 1) :
                      /\ i <= Len(nospace) => IndexMatchEnd(nospace, i) > 0
                      /\ \A j \in 1..(i - 1) : IndexMatchEnd(nospace, j) = 0
    IN  IF trimmed = <<>> THEN <<>>
        ELSE IF first > Len(nospace) THEN CollapseDots(nospace)
        ELSE CollapseDots(SubSeq(nospace, 1, first - 1) \o <<"[", "]">>
                 \o SubSeq(nospace, IndexMatchEnd(nospace, first) + 1, Len(nospace)))

normalizePath(path) ==
    LET trimmed == TrimSpace(path)
    IN  IF trimmed = <<>> THEN <<>>
        ELSE CollapseDots(ReplaceIndices(ReplaceAll(trimmed, <<" ">>, <<>>)))

-----------------------------------------------------------------------------
(* Inputs of normalizePath: every concatenation of at most MaxPieces pieces *)

PathPieces ==
    { <<"a">>, <<"0">>, <<"[">>, <<"]">>, <<".">>, <<" ">>, <<"\t">>,
      <<"[", "0", "]">>, <<"[", "1", "2", "]">> }

RECURSIVE Flatten(_)
Flatten(ps) == IF ps = <<>> THEN <<>> ELSE Head(ps) \o Flatten(Tail(ps))

PathInputs ==
    { Flatten(ps) : ps \in UNION { [1..n -> PathPieces] : n \in 0..MaxPieces } }

\* the indices a path is re-indexed with
OtherIndices == { <<"7">>, <<"3", "1">> }

\* path with its k-th, k+1-th, ... index [<digits>] replaced by [ks[k]], ...
\* (the last element of ks is used for all further indices)
RECURSIVE ReindexFrom(_, _, _)
ReindexFrom(s, i, ks) ==
    IF i > Len(s) THEN <<>>
    ELSE LET e == IndexMatchEnd(s, i)
         IN  IF e > 0
             THEN <<"[">> \o Head(ks) \o <<"]">>
                  \o ReindexFrom(s, e + 1, IF Len(ks) > 1 THEN Tail(ks) ELSE ks)
             ELSE <<s[i]>> \o ReindexFrom(s, i + 1, ks)

Reindexings(s) ==
    { ReindexFrom(s, 1, <<k1, k2>>) : k1 \in OtherIndices, k2 \in OtherIndices }

\* s holds an index [<digits>]
HasIndex(s) == \E i \in 1..Len(s) : IndexMatchEnd(s, i) > 0

-----------------------------------------------------------------------------
(* Values (interface{}) and their rendering *)

\* a Go value handed to the interpolator: nil, or a value whose %v form is s
NilValue == [nil |-> TRUE, s |-> <<>>]

StrValue(s) == [nil |-> FALSE, s |-> s]

\* fmt.Sprintf("%v", v)
Sprintf(v) == IF v.nil THEN <<"<", "n", "i", "l", ">">> ELSE v.s

DigitChars == <<"0", "1", "2", "3", "4", "5", "6", "7", "8", "9">>

\* fmt.Sprintf("%d", n) for n >= 0
RECURSIVE Itoa(_)
Itoa(n) ==
    IF n < 10 THEN <<DigitChars[n + 1]>>
    ELSE Itoa(n \div 10) \o <<DigitChars[(n % 10) + 1]>>

\* s holds old at some position
Contains(s, old) == \E i \in 1..Len(s) : HasPrefixAt(s, i, old)

\* strings.Replace(s, old, new, 1) for a non-empty old
ReplaceFirst(s, old, new) ==
    IF Contains(s, old)
    THEN LET i == CHOOSE k \in 1..Len(s) :
                     /\ HasPrefixAt(s, k, old)
                     /\ \A j \in 1..(k - 1) : ~HasPrefixAt(s, j, old)
         IN  SubSeq(s, 1, i - 1) \o new \o SubSeq(s, i + Len(old), Len(s))
    ELSE s

-----------------------------------------------------------------------------
(* messages.go: interpolateParams *)

\* fmt.Sprintf("__ESCAPED_BRACE_%d__", n)
EscapedBrace(n) ==
    <<"_", "_", "E", "S", "C", "A", "P", "E", "D", "_",
      "B", "R", "A", "C", "E", "_">> \o Itoa(n) \o <<"_", "_">>

\* first index >= i of s that holds a brace (Len(s) + 1 if none)
RECURSIVE NonBraceRunEnd(_, _)
NonBraceRunEnd(s, i) ==
    IF i > Len(s) THEN i
    ELSE IF s[i] \in {"{", "}"} THEN i ELSE NonBraceRunEnd(s, i + 1)

\* the pattern {{([^{}]*?)}} matches at i: returns the index of the last
\* closing brace, 0 when there is no match at i
EscapedMatchEnd(s, i) ==
    IF HasPrefixAt(s, i, <<"{", "{">>)
    THEN LET e == NonBraceRunEnd(s, i + 2)
         IN  IF HasPrefixAt(s, e, <<"}", "}">>) THEN e + 1 ELSE 0
    ELSE 0

\* escapedPattern.ReplaceAllStringFunc(message, ...): every escaped
\* sequence is replaced by a numbered placeholder, and the placeholder and the
\* single-brace text it stands for are appended to replacements
RECURSIVE extractEscapedFrom(_, _, _)
extractEscapedFrom(s, i, n) ==
    IF i > Len(s) THEN [result |-> <<>>, replacements |-> <<>>]
    ELSE LET e == EscapedMatchEnd(s, i)
         IN  IF e > 0
             THEN LET rest == extractEscapedFrom(s, e + 1, n + 1)
                  IN  [result |-> EscapedBrace(n) \o rest.result,
                       replacements |->
                           <<[placeholder |-> EscapedBrace(n),
                              replacement |-> <<"{">> \o SubSeq(s, i + 2, e - 2)
                                                 \o <<"}">>]>>
                           \o rest.replacements]
             ELSE LET rest == extractEscapedFrom(s, i + 1, n)
                  IN  [result |-> <<s[i]>> \o rest.result,
                       replacements |-> rest.replacements]

extractEscaped(message) == extractEscapedFrom(message, 1, 0)

\* namedParams["field"], ["value"], ["param"] = params[0], [1], [2]
FieldName == <<"f", "i", "e", "l", "d">>
ValueName == <<"v", "a", "l", "u", "e">>
ParamName == <<"p", "a", "r", "a", "m">>

\* a variant that takes value from params[2] and param from params[1]
builtinNamedParams_Swapped(params) ==
    [n \in ({FieldName} \cap (IF Len(params) > 0 THEN {FieldName} ELSE {}))
           \cup ({ValueName} \cap (IF Len(params) > 2 THEN {ValueName} ELSE {}))
           \cup ({ParamName} \cap (IF Len(params) > 1 THEN {ParamName} ELSE {}))
       |-> IF n = FieldName THEN params[1]
           ELSE IF n = ValueName THEN params[3] ELSE params[2]]

builtinNamedParams(params) ==
    [n \in ({FieldName} \cap (IF Len(params) > 0 THEN {FieldName} ELSE {}))
           \cup ({ValueName} \cap (IF Len(params) > 1 THEN {ValueName} ELSE {}))
           \cup ({ParamName} \cap (IF Len(params) > 2 THEN {ParamName} ELSE {}))
       |-> IF n = FieldName THEN params[1]
           ELSE IF n = ValueName THEN params[2] ELSE params[3]]

\* the custom parameters laid over the built-in names: a custom parameter
\* replaces a built-in one of the same name
overlayCustomParams(named, custom) ==
    [n \in DOMAIN named \cup DOMAIN custom |->
        IF n \in DOMAIN custom THEN custom[n] ELSE named[n]]

\* the named pass matches a run of non-brace characters between one pair of
\* braces and skips a name whose first character is a decimal digit
IsSubstitutableName(n) ==
    /\ ~(Len(n) > 0 /\ IsDigit(n[1]))
    /\ \A i \in 1..Len(n) : n[i] \notin {"{", "}"}

\* customParams ...CustomParams: the overlays are applied in order, a later
\* overlay replaces the value an earlier one gives a name
RECURSIVE mergeCustomParams(_)
mergeCustomParams(overlays) ==
    IF overlays = <<>> THEN <<>>
    ELSE overlayCustomParams(
             mergeCustomParams(SubSeq(overlays, 1, Len(overlays) - 1)),
             overlays[Len(overlays)])

\* a variant that replaces only the first occurrence of {name}
replaceNamed_FirstOnly(result, name, value) ==
    ReplaceFirst(result, <<"{">> \o name \o <<"}">>,
                 IF value.nil THEN <<>> ELSE Sprintf(value))

\* one pass of the loop over namedParams: {name} is replaced everywhere by
\* the value's %v form, by nothing for a nil value
replaceNamed(result, name, value) ==
    ReplaceAll(result, <<"{">> \o name \o <<"}">>,
               IF value.nil THEN <<>> ELSE Sprintf(value))

\* for name, value := range namedParams { ... }: Go leaves the order of a
\* map's iteration open, so every order of the remaining names is followed;
\* the set of strings the loop can end with
RECURSIVE namedLoop(_, _, _)
namedLoop(result, named, remaining) ==
    IF \A n \in remaining : ~Contains(result, <<"{">> \o n \o <<"}">>)
    THEN {result}
    ELSE UNION { namedLoop(replaceNamed(result, n, named[n]), named,
                           remaining \ {n}) : n \in remaining }

\* a variant that replaces only the first occurrence of each {i}
RECURSIVE positionalLoop_FirstOccurrence(_, _, _)
positionalLoop_FirstOccurrence(result, params, i) ==
    IF i >= Len(params) THEN result
    ELSE positionalLoop_FirstOccurrence(
             ReplaceFirst(result, <<"{">> \o Itoa(i) \o <<"}">>,
                          Sprintf(params[i + 1])),
             params, i + 1)

\* for i, param := range params { ... }: {i} is replaced everywhere by the
\* %v form of params[i], for i = 0, 1, ... in turn
RECURSIVE positionalLoop(_, _, _)
positionalLoop(result, params, i) ==
    IF i >= Len(params) THEN result
    ELSE positionalLoop(
             ReplaceAll(result, <<"{">> \o Itoa(i) \o <<"}">>,
                        Sprintf(params[i + 1])),
             params, i + 1)

\* for _, item := range replacements { ... }: the first occurrence of each
\* placeholder is replaced by the text it stands for
RECURSIVE restoreEscaped(_, _)
restoreEscaped(result, replacements) ==
    IF replacements = <<>> THEN result
    ELSE restoreEscaped(
             ReplaceFirst(result, Head(replacements).placeholder,
                          Head(replacements).replacement),
             Tail(replacements))

\* a variant that takes a name it does not know, x, for a nil value
interpolateParams_UnknownAsEmpty(message, params, custom) ==
    IF Len(params) = 0 /\ DOMAIN custom = {}
    THEN {message}
    ELSE LET esc   == extractEscaped(message)
             known == overlayCustomParams(builtinNamedParams(params), custom)
             named == [n \in DOMAIN known \cup {<<"x">>} |->
                          IF n \in DOMAIN known THEN known[n] ELSE NilValue]
         IN  { restoreEscaped(positionalLoop(r, params, 0), esc.replacements) :
                  r \in namedLoop(esc.result, named,
                                  { n \in DOMAIN named : IsSubstitutableName(n) }) }

\* interpolateParams(message, params, customParams): the set of strings the
\* call can return (one string unless a value itself holds a placeholder)
interpolateParams(message, params, custom) ==
    IF Len(params) = 0 /\ DOMAIN custom = {}
    THEN {message}
    ELSE LET esc   == extractEscaped(message)
             named == overlayCustomParams(builtinNamedParams(params), custom)
         IN  { restoreEscaped(positionalLoop(r, params, 0), esc.replacements) :
                  r \in namedLoop(esc.result, named,
                                  { n \in DOMAIN named : IsSubstitutableName(n) }) }

-----------------------------------------------------------------------------
(* reflect: the types of the validated values *)

\* a struct tag: key -> value; reflect.StructTag.Get returns "" for a key
\* the tag does not hold
NoTag == [k \in {} |-> <<>>]

TagGet(tag, key) == IF key \in DOMAIN tag THEN tag[key] ELSE <<>>

\* reflect.StructField
StructFieldOf(name, type, tag) == [Name |-> name, Type |-> type, Tag |-> tag]

\* reflect.StructField{}
ZeroStructField == StructFieldOf(<<>>, "invalid", NoTag)

BasicType(kind) == [kind |-> kind, name |-> <<>>, elem |-> "invalid", fields |-> <<>>]

ContainerType(kind, elem) == [kind |-> kind, name |-> <<>>, elem |-> elem, fields |-> <<>>]

StructType(name, fields) == [kind |-> "struct", name |-> name, elem |-> "invalid", fields |-> fields]

\* The validated types:
\*   type E struct { N string `validate:"required,min=3" errmsg-min:"M{param}"` }
\*   type R struct { N string `validate:"required" errmsg-required:"Q{field}{n}" errmsg:"G"`
\*                   I []E    `validate:"dive"`
\*                   A int    `validate:"required" errmsg:"{param}"` }
\*   F and P: the same shapes without errmsg tags
\*   type C struct { E string `errmsg:"c"` }
\*   type T struct { K []*C
\*                   N string `errmsg-min:"t"` }
\*   type U struct { I []T
\*                   M map[string]C
\*                   W map[string]*C
\*                   G map[string]string `errmsg:"g"`
\*                   Q *C
\*                   N string `errmsg-required:"u" errmsg:"v"` }
\*   type V struct { S string `validate:"min=9" errmsg-min:"{value}"` }
TypeTable ==
    [t \in {"string", "int", "E", "[]E", "R", "*R", "F", "[]F", "P",
            "C", "*C", "[]*C", "map[string]C", "map[string]*C",
            "map[string]string", "T", "[]T", "U", "*U", "**U", "V"} |->
        CASE t = "string" -> BasicType("string")
          [] t = "V" ->
               StructType(<<"V">>,
                   <<StructFieldOf(<<"S">>, "string",
                         [k \in {"errmsg-min"} |->
                             <<"{", "v", "a", "l", "u", "e", "}">>])>>)
          [] t = "C" ->
               StructType(<<"C">>,
                   <<StructFieldOf(<<"E">>, "string", [k \in {"errmsg"} |-> <<"c">>])>>)
          [] t = "*C" -> ContainerType("ptr", "C")
          [] t = "[]*C" -> ContainerType("slice", "*C")
          [] t = "map[string]C" -> ContainerType("map", "C")
          [] t = "map[string]*C" -> ContainerType("map", "*C")
          [] t = "map[string]string" -> ContainerType("map", "string")
          [] t = "T" ->
               StructType(<<"T">>,
                   <<StructFieldOf(<<"K">>, "[]*C", NoTag),
                     StructFieldOf(<<"N">>, "string",
                         [k \in {"errmsg-min"} |-> <<"t">>])>>)
          [] t = "[]T" -> ContainerType("slice", "T")
          [] t = "U" ->
               StructType(<<"U">>,
                   <<StructFieldOf(<<"I">>, "[]T", NoTag),
                     StructFieldOf(<<"M">>, "map[string]C", NoTag),
                     StructFieldOf(<<"W">>, "map[string]*C", NoTag),
                     StructFieldOf(<<"G">>, "map[string]string",
                         [k \in {"errmsg"} |-> <<"g">>]),
                     StructFieldOf(<<"Q">>, "*C", NoTag),
                     StructFieldOf(<<"N">>, "string",
                         [k \in {"errmsg-required", "errmsg"} |->
                             IF k = "errmsg" THEN <<"v">> ELSE <<"u">>])>>)
          [] t = "*U" -> ContainerType("ptr", "U")
          [] t = "**U" -> ContainerType("ptr", "*U")
          [] t = "int" -> BasicType("int")
          [] t = "E" ->
               StructType(<<"E">>,
                   <<StructFieldOf(<<"N">>, "string",
                         [k \in {"errmsg-min"} |-> <<"M", "{", "p", "a", "r", "a", "m", "}">>])>>)
          [] t = "[]E" -> ContainerType("slice", "E")
          [] t = "R" ->
               StructType(<<"R">>,
                   <<StructFieldOf(<<"N">>, "string",
                         [k \in {"errmsg-required", "errmsg"} |->
                             IF k = "errmsg" THEN <<"G">>
                             ELSE <<"Q", "{", "f", "i", "e", "l", "d", "}",
                                    "{", "n", "}">>]),
                     StructFieldOf(<<"I">>, "[]E", NoTag),
                     StructFieldOf(<<"A">>, "int",
                         [k \in {"errmsg"} |-> <<"{", "p", "a", "r", "a", "m", "}">>])>>)
          [] t = "*R" -> ContainerType("ptr", "R")
          [] t = "F" ->
               StructType(<<"F">>, <<StructFieldOf(<<"N">>, "string", NoTag)>>)
          [] t = "[]F" -> ContainerType("slice", "F")
          [] t = "P" ->
               StructType(<<"P">>,
                   <<StructFieldOf(<<"N">>, "string", NoTag),
                     StructFieldOf(<<"I">>, "[]F", NoTag),
                     StructFieldOf(<<"A">>, "int", NoTag)>>)]

\* reflect.Type.Kind
Kind(t) == TypeTable[t].kind

\* reflect.Type.Elem
Elem(t) == TypeTable[t].elem

\* (reflect.StructField{}, false)
NotFound == [found |-> FALSE, field |-> ZeroStructField, panic |-> FALSE]

\* the call did not return: a method of reflect.Type panicked
Panicked == [found |-> FALSE, field |-> ZeroStructField, panic |-> TRUE]

\* the field of the name among the fields fs of a struct type
fieldNamed(fs, name) ==
    IF \A i \in 1..Len(fs) : fs[i].Name # name THEN NotFound
    ELSE [found |-> TRUE,
          field |-> fs[CHOOSE i \in 1..Len(fs) : fs[i].Name = name],
          panic |-> FALSE]

\* reflect.Type.FieldByName: it panics when the type is no struct type
FieldByName(t, name) ==
    IF Kind(t) # "struct" THEN Panicked
    ELSE fieldNamed(TypeTable[t].fields, name)

-----------------------------------------------------------------------------
(* utils.go: getFullPath, getRawTagMessage, getStructFieldFromNamespace *)

\* getFullPath: the namespace without its first segment
getFullPath(ve) ==
    LET parts == SplitFirstDot(ve.Namespace)
    IN  IF Len(parts) < 2 THEN ve.Namespace ELSE parts[2]

\* a variant that reads errmsg first
getRawTagMessage_GeneralFirst(field, constraint) ==
    LET message == TagGet(field.Tag, "errmsg")
    IN  IF message = <<>> THEN TagGet(field.Tag, "errmsg-" \o constraint)
        ELSE message

\* getRawTagMessage: errmsg-<constraint>, else errmsg
getRawTagMessage(field, constraint) ==
    LET message == TagGet(field.Tag, "errmsg-" \o constraint)
    IN  IF message = <<>> THEN TagGet(field.Tag, "errmsg") ELSE message

DigitValue(c) == CHOOSE d \in 0..9 : DigitChars[d + 1] = c

\* strconv.Atoi of a run of digits (its out-of-range error needs more digits
\* than an index of this model has)
RECURSIVE Atoi(_)
Atoi(ds) ==
    IF ds = <<>> THEN 0
    ELSE 10 * Atoi(SubSeq(ds, 1, Len(ds) - 1)) + DigitValue(ds[Len(ds)])

\* one segment of a namespace, as the loop body reads it:
\*   ^(\w+)\[(\d+)\]$     an array or slice index
\*   ^(\w+)\[([^\]]+)\]$  a map key
parseSegment(part) ==
    LET w == WordRunEnd(part, 1)
        bracket == w > 1 /\ w <= Len(part) /\ part[w] = "["
        e == DigitRunEnd(part, w + 1)
        isIndex == bracket /\ e > w + 1 /\ e = Len(part) /\ part[e] = "]"
        isKey == /\ bracket
                 /\ Len(part) >= w + 2
                 /\ part[Len(part)] = "]"
                 /\ \A j \in (w + 1)..(Len(part) - 1) : part[j] # "]"
    IN  IF isIndex
        THEN [fieldName |-> SubSeq(part, 1, w - 1),
              arrayIndex |-> Atoi(SubSeq(part, w + 1, e - 1)),
              isMapKey |-> FALSE]
        ELSE IF isKey
        THEN [fieldName |-> SubSeq(part, 1, w - 1), arrayIndex |-> -1,
              isMapKey |-> TRUE]
        ELSE [fieldName |-> part, arrayIndex |-> -1, isMapKey |-> FALSE]

\* if arrayIndex >= 0 && (Kind() == Array || Kind() == Slice) { Elem() }
elemIfIndexed(seg, fieldType) ==
    IF seg.arrayIndex >= 0 /\ Kind(fieldType) \in {"array", "slice"}
    THEN Elem(fieldType) ELSE fieldType

\* if fieldType.Kind() == reflect.Ptr { fieldType = fieldType.Elem() }
elemIfPtr(fieldType) ==
    IF Kind(fieldType) = "ptr" THEN Elem(fieldType) ELSE fieldType

\* if fieldType.Kind() == reflect.Map { ...; fieldType = fieldType.Elem() }
elemIfMap(fieldType) ==
    IF Kind(fieldType) = "map" THEN Elem(fieldType) ELSE fieldType

RECURSIVE walkNamespace(_, _, _, _)

\* a variant that goes on into a type that is no struct type
walkInto_NoStructCheck(fieldType, parts, i, leafFieldName) ==
    walkNamespace(fieldType, parts, i + 1, leafFieldName)

\* the end of the loop body: with segments left the type must be a struct
\* type; current = fieldType and the next segment
walkInto(fieldType, parts, i, leafFieldName) ==
    IF i < Len(parts) - 1 /\ Kind(fieldType) # "struct" THEN NotFound
    ELSE walkNamespace(fieldType, parts, i + 1, leafFieldName)

\* the loop body after FieldByName has returned f: fieldType is the field's
\* type behind the index and the pointer
walkField(f, fieldType, seg, parts, i, leafFieldName) ==
    IF f.panic THEN Panicked
    ELSE IF ~f.found THEN NotFound
    ELSE IF Kind(fieldType) = "map" /\ seg.isMapKey /\ i = Len(parts) - 1
    THEN [found |-> TRUE, field |-> f.field, panic |-> FALSE]
    ELSE walkInto(elemIfMap(fieldType), parts, i, leafFieldName)

\* the loop body from FieldByName on
walkSegment(f, seg, parts, i, leafFieldName) ==
    walkField(f, elemIfPtr(elemIfIndexed(seg, f.field.Type)), seg, parts, i,
              leafFieldName)

\* one turn of the loop on the parsed segment seg
walkParsed(current, seg, parts, i, leafFieldName) ==
    IF seg.fieldName = leafFieldName /\ i = Len(parts) - 1
    THEN FieldByName(current, seg.fieldName)
    ELSE walkSegment(FieldByName(current, seg.fieldName), seg, parts, i,
                     leafFieldName)

\* the loop for i := 1; i < len(parts); i++ and the lookup after it
\* (parts[i] of the code is parts[i + 1] here)
walkNamespace(current, parts, i, leafFieldName) ==
    IF i >= Len(parts)
    THEN IF Kind(current) = "struct" THEN FieldByName(current, leafFieldName)
         ELSE NotFound
    ELSE walkParsed(current, parseSegment(parts[i + 1]), parts, i,
                    leafFieldName)

getStructFieldFromNamespace(structType, namespace, leafFieldName) ==
    IF structType = "nil" THEN NotFound
    ELSE LET st == IF Kind(structType) = "ptr" THEN Elem(structType)
                   ELSE structType
             parts == SplitDots(namespace)
         IN  IF Kind(st) # "struct" THEN NotFound
             ELSE IF Len(parts) <= 1 THEN FieldByName(st, leafFieldName)
             ELSE walkNamespace(st, parts, 1, leafFieldName)

-----------------------------------------------------------------------------
(* errors.go: ValidationErrors *)

\* a variant that keeps only the last error of each path
RECURSIVE GroupErrorsByPath_KeepLast(_)
GroupErrorsByPath_KeepLast(ve) ==
    IF ve = <<>> THEN <<>>
    ELSE LET groupedErrors == GroupErrorsByPath_KeepLast(SubSeq(ve, 1, Len(ve) - 1))
             err == ve[Len(ve)]
         IN  [p \in DOMAIN groupedErrors \cup {err.Path} |->
                 IF p = err.Path THEN <<err>> ELSE groupedErrors[p]]

\* ve.GroupErrorsByPath(): for _, err := range ve
\*     groupedErrors[err.Path] = append(groupedErrors[err.Path], err)
RECURSIVE GroupErrorsByPath(_)
GroupErrorsByPath(ve) ==
    IF ve = <<>> THEN <<>>
    ELSE LET groupedErrors == GroupErrorsByPath(SubSeq(ve, 1, Len(ve) - 1))
             err == ve[Len(ve)]
         IN  [p \in DOMAIN groupedErrors \cup {err.Path} |->
                 IF p = err.Path
                 THEN (IF p \in DOMAIN groupedErrors THEN groupedErrors[p]
                       ELSE <<>>) \o <<err>>
                 ELSE groupedErrors[p]]

\* ve.ErrorsForPath(path): for _, err := range ve
\*     if err.Path == path { pathErrors = append(pathErrors, err) }
RECURSIVE ErrorsForPath(_, _)
ErrorsForPath(ve, path) ==
    IF ve = <<>> THEN <<>>
    ELSE LET pathErrors == ErrorsForPath(SubSeq(ve, 1, Len(ve) - 1), path)
             err == ve[Len(ve)]
         IN  IF err.Path = path THEN Append(pathErrors, err) ELSE pathErrors

-----------------------------------------------------------------------------
(* messages.go: ValidationMessages *)

\* ValidationMessageConfig{Constraints: make(map[string]string)}
NewConfig == [Default |-> <<>>, Constraints |-> [c \in {} |-> <<>>]]

\* m[k] = v on a Go map
MapPut(m, k, v) == [x \in DOMAIN m \cup {k} |-> IF x = k THEN v ELSE m[x]]

\* delete(m, k) on a Go map
MapDelete(m, k) == [x \in DOMAIN m \ {k} |-> m[x]]

\* NewValidationMessages
NewValidationMessages == [p \in {} |-> NewConfig]

\* a faulty variant: a template that is already set is kept
SetMessage_FirstWins(vm, path, constraint, message) ==
    LET config == IF path \in DOMAIN vm THEN vm[path] ELSE NewConfig
    IN  IF constraint \in DOMAIN config.Constraints THEN vm
        ELSE MapPut(vm, path,
                 [config EXCEPT !.Constraints = MapPut(@, constraint, message)])

\* ValidationMessages.SetMessage
SetMessage(vm, path, constraint, message) ==
    LET config == IF path \in DOMAIN vm THEN vm[path] ELSE NewConfig
    IN  MapPut(vm, path,
            [config EXCEPT !.Constraints = MapPut(@, constraint, message)])

\* a faulty variant: the path gets a fresh configuration with the default
SetPathDefault_Fresh(vm, path, message) ==
    MapPut(vm, path, [NewConfig EXCEPT !.Default = message])

\* ValidationMessages.SetDefaultMessage
SetPathDefault(vm, path, message) ==
    LET config == IF path \in DOMAIN vm THEN vm[path] ELSE NewConfig
    IN  MapPut(vm, path, [config EXCEPT !.Default = message])

\* a faulty variant: the path default is read before the constraint's template
ResolveMessage_DefaultFirst(vm, path, constraint, params, custom) ==
    IF path \in DOMAIN vm
    THEN IF vm[path].Default # <<>>
         THEN interpolateParams(vm[path].Default, params, custom)
         ELSE IF constraint \in DOMAIN vm[path].Constraints
         THEN interpolateParams(vm[path].Constraints[constraint], params, custom)
         ELSE { <<>> }
    ELSE { <<>> }

\* ValidationMessages.ResolveMessage: the strings the call can return
ResolveMessage(vm, path, constraint, params, custom) ==
    IF path \in DOMAIN vm
    THEN IF constraint \in DOMAIN vm[path].Constraints
         THEN interpolateParams(vm[path].Constraints[constraint], params, custom)
         ELSE IF vm[path].Default # <<>>
         THEN interpolateParams(vm[path].Default, params, custom)
         ELSE { <<>> }
    ELSE { <<>> }

\* CreateValidationParams: field, actual value, constraint parameter or nil
CreateValidationParams(err) ==
    <<StrValue(err.Field), err.Actual,
      IF err.Param # <<>> THEN StrValue(err.Param) ELSE NilValue>>

-----------------------------------------------------------------------------
(* Inputs of interpolateParams *)

CustomName == <<"n">>

DigitLedName == <<"0", "n">>

\* a piece of a template: plain text, a placeholder {name} or an escaped
\* placeholder {{name}}
Piece(kind, name) == [kind |-> kind, name |-> name]

\* a custom name that holds a digit but does not start with one
DigitHeldName == <<"n", "1">>

\* a custom name that holds braces
BraceName == <<"a", "{", "x", "}">>

PieceNames == { FieldName, ValueName, ParamName, CustomName, <<"0">>, <<"x">> }

TemplatePieces ==
    { Piece("text", <<"a">>), Piece("text", EscapedBrace(0)) }
    \cup { Piece("live", n) :
              n \in PieceNames \cup {<<"2">>, <<"1", "0">>, DigitLedName,
                                      <<"0", "0", "7">>, DigitHeldName,
                                      BraceName} }
    \cup { Piece("escaped", n) : n \in PieceNames }

PieceText(p) ==
    IF p.kind = "text" THEN p.name
    ELSE IF p.kind = "live" THEN <<"{">> \o p.name \o <<"}">>
    ELSE <<"{", "{">> \o p.name \o <<"}", "}">>

RECURSIVE TemplateOf(_)
TemplateOf(ps) ==
    IF ps = <<>> THEN <<>> ELSE PieceText(Head(ps)) \o TemplateOf(Tail(ps))

TemplateInputs ==
    UNION { [1..n -> TemplatePieces] : n \in 0..MaxTemplatePieces }

\* a list of eleven parameters, for the two-digit index {10}
ElevenParams ==
    [i \in 1..11 |-> IF i = 11 THEN StrValue(<<"L">>) ELSE StrValue(<<"F">>)]

ParamsInputs ==
    { <<>>,
      <<StrValue(<<"F">>)>>,
      <<StrValue(<<"F">>), StrValue(<<"V">>), NilValue>>,
      <<StrValue(<<"F">>), StrValue(<<"{", "p", "a", "r", "a", "m", "}">>),
        StrValue(<<"5">>)>>,
      <<StrValue(<<"F">>), StrValue(<<"{", "0", "}">>)>>,
      ElevenParams }

EmptyCustom == [n \in {} |-> NilValue]

\* the overlays handed to one call, in order
CustomInputs ==
    { <<>>,
      <<[n \in {CustomName} |-> StrValue(<<"X">>)]>>,
      <<[n \in {CustomName, DigitLedName, DigitHeldName, BraceName} |->
            StrValue(<<"Y">>)]>>,
      <<[n \in {FieldName} |-> StrValue(<<"O">>)]>>,
      <<[n \in {CustomName, ParamName} |-> StrValue(<<"X">>)],
        [n \in {CustomName} |-> StrValue(<<"Z">>)]>>,
      <<EmptyCustom>> }

-----------------------------------------------------------------------------
(* The calls of interpolateParams *)

InterpolateInit ==
    /\ ipPieces \in TemplateInputs
    /\ ipParams \in ParamsInputs
    /\ ipCustom \in CustomInputs
    /\ ipOut = <<>>
    /\ ipPc = "start"

\* out := interpolateParams(template, params, custom)
Interpolate ==
    /\ ipPc = "start"
    /\ ipOut' \in interpolateParams(TemplateOf(ipPieces), ipParams,
                                    mergeCustomParams(ipCustom))
    /\ ipPc' = "done"
    /\ UNCHANGED <<ipPieces, ipParams, ipCustom, npVars, vaVars, heVars>>

-----------------------------------------------------------------------------
(* The calls of normalizePath *)

NormalizeInit ==
    /\ npIn \in PathInputs
    /\ npOut = <<>>
    /\ npIn2 = <<>>
    /\ npOut2 = <<>>
    /\ npPc = "start"

\* no call of normalizePath is under way
NormalizeIdle ==
    /\ npIn = <<>>
    /\ npOut = <<>>
    /\ npIn2 = <<>>
    /\ npOut2 = <<>>
    /\ npPc = "idle"

\* no call of interpolateParams is under way
InterpolateIdle ==
    /\ ipPieces = <<>>
    /\ ipParams = <<>>
    /\ ipCustom = <<>>
    /\ ipOut = <<>>
    /\ ipPc = "idle"

\* out := normalizePath(in)
Normalize ==
    /\ npPc = "start"
    /\ npOut' = normalizePath(npIn)
    /\ npPc' = "normalized"
    /\ UNCHANGED <<npIn, npIn2, npOut2, ipVars, vaVars, heVars>>

\* out2 := normalizePath(out)
NormalizeAgain ==
    /\ npPc = "normalized"
    /\ npIn2' = npOut
    /\ npOut2' = normalizePath(npOut)
    /\ npPc' = "renormalized"
    /\ UNCHANGED <<npIn, npOut, ipVars, vaVars, heVars>>

\* out2 := normalizePath(q) for a path q that differs from in only in its
\* numeric indices
NormalizeReindexed ==
    /\ npPc = "normalized"
    /\ \E q \in Reindexings(npIn) :
          /\ npIn2' = q
          /\ npOut2' = normalizePath(q)
    /\ npPc' = "reindexed"
    /\ UNCHANGED <<npIn, npOut, ipVars, vaVars, heVars>>

-----------------------------------------------------------------------------
(* Inputs of the validator *)

Constraints == {"required", "min"}

\* the templates handed to the setters
Templates == { <<>>, <<"{", "p", "a", "r", "a", "m", "}">>, <<"T", "{", "n", "}">> }

\* the paths handed to Validator.SetConstraintMessage and
\* Validator.SetPathDefaultMessage
SetterPaths == { <<"I", "[", "0", "]", ".", "N">>, <<" ", "I", " ", "[", "7", "]", ".", ".", "N", " ">>, <<"A">> }

\* the paths handed to the methods of ValidationMessages
TablePaths == { <<"I", "[", "0", "]", ".", "N">>, <<"A">> }

\* what the underlying validator reports for one failure
\* (govalidator.FieldError)
FieldError(typeName, path, field, tag, param, value) ==
    [Field |-> field,
     Namespace |-> typeName \o <<".">> \o path,
     StructNamespace |-> typeName \o <<".">> \o path,
     StructField |-> field,
     ActualTag |-> tag,
     Param |-> param,
     Value |-> value]

\* the failures of a value of root type R or P (tn is the type's name)
FailN(tn) == FieldError(tn, <<"N">>, <<"N">>, "required", <<>>, StrValue(<<>>))

FailItemMin(tn) ==
    FieldError(tn, <<"I", "[", "1", "]", ".", "N">>, <<"N">>, "min", <<"3">>, StrValue(<<"a", "b">>))

FailItemRequired(tn) ==
    FieldError(tn, <<"I", "[", "3", "]", ".", "N">>, <<"N">>, "required", <<>>, StrValue(<<>>))

FailA(tn) == FieldError(tn, <<"A">>, <<"A">>, "required", <<>>, StrValue(<<"0">>))

\* the failure of V{S: "{param}"}: the text the caller validates is shorter
\* than nine characters and reads like a placeholder
FailS ==
    FieldError(<<"V">>, <<"S">>, <<"S">>, "min", <<"9">>,
               StrValue(<<"{", "p", "a", "r", "a", "m", "}">>))

\* the values handed to ValidateCtx: the type of the value and the failures
\* the underlying validator finds in it
ValidateInputs ==
    { [type |-> "R", failures |-> fs] :
          fs \in { <<>>, <<FailN(<<"R">>), FailItemMin(<<"R">>)>>,
                   <<FailItemRequired(<<"R">>)>>, <<FailA(<<"R">>)>> } }
    \cup { [type |-> "P", failures |-> <<FailItemMin(<<"P">>)>>],
           [type |-> "*R", failures |-> <<FailN(<<"R">>)>>],
           [type |-> "V", failures |-> <<FailS>>] }

\* the values handed to AddCustomParam
CustomValues == { StrValue(<<"X">>), StrValue(<<"Y">>) }

\* the tag name functions handed to RegisterTagNameFunc
TagNameFuncs == { "json" }

\* the tags handed to RegisterValidation and the aliases to RegisterAlias
CustomTags == { "even" }

Aliases == { "userid" }

\* the path handed to ResolveMessage
ResolvePaths == { <<"I", "[", "]", ".", "N">> }

\* the parameter lists and custom parameters handed to ResolveMessage
ResolveArgs ==
    { [params |-> <<>>, custom |-> EmptyCustom],
      [params |-> <<StrValue(<<"N">>), StrValue(<<"a", "b">>), StrValue(<<"3">>)>>,
       custom |-> [n \in {CustomName} |-> StrValue(<<"X">>)]] }

-----------------------------------------------------------------------------
(* validator.go: Validator *)

\* the global default of a fresh validator
InvalidValue == <<"I", "n", "v", "a", "l", "i", "d", " ", "v", "a", "l", "u", "e">>

\* govalidator.New(): no tag name function, no validation and no alias has
\* been registered
NewEngine == [tagNameFunc |-> "none", validations |-> {}, aliases |-> {}]

\* the function UseJsonTagName registers: the name in the field's json tag;
\* the fields N, I and A carry the tags json:"n", json:"i" and json:"a"
jsonTagName(name) ==
    [k \in 1..Len(name) |->
        CASE name[k] = "N" -> "n"
          [] name[k] = "I" -> "i"
          [] name[k] = "A" -> "a"
          [] OTHER -> name[k]]

\* v.validator.StructCtx(ctx, i): the failures of the value, with the fields
\* named by the tag name function registered with the engine, if any
StructCtx(engine, i) ==
    [k \in 1..Len(i.failures) |->
        LET f == i.failures[k]
            parts == SplitFirstDot(f.StructNamespace)
        IN  IF engine.tagNameFunc = "json"
            THEN [f EXCEPT !.Field = jsonTagName(f.StructField),
                           !.Namespace = parts[1] \o <<".">>
                                            \o jsonTagName(parts[2])]
            ELSE f]

\* New(): a validator over the empty table `messages`
New(messages) ==
    [validator |-> 1,
     DefaultMessage |-> InvalidValue,
     DefaultTagMessages |-> [c \in {} |-> <<>>],
     Messages |-> messages,
     CustomParams |-> EmptyCustom]

NoCall ==
    [op |-> "none", v |-> 0, type |-> "nil", failures |-> <<>>,
     errors |-> <<>>, table |-> 0, path |-> <<>>, constraint |-> "",
     params |-> <<>>, custom |-> EmptyCustom, result |-> <<>>,
     isNil |-> FALSE]

\* v := New(); messages := NewValidationMessages()
\* table 1 is v.Messages, table 2 is the table no validator uses yet
ValidatorInit ==
    /\ tables = <<NewValidationMessages, NewValidationMessages>>
    /\ validators = <<New(1)>>
    /\ engines = <<NewEngine>>
    /\ last = NoCall
    /\ written = <<>>
    /\ paramLog = << <<>> >>
    /\ nCalls = 0

\* no validator has been constructed
ValidatorIdle ==
    /\ tables = <<>>
    /\ validators = <<>>
    /\ engines = <<>>
    /\ last = NoCall
    /\ written = <<>>
    /\ paramLog = <<>>
    /\ nCalls = 0

\* the caller is between two calls
Idle == last.op = "none"

\* a configuration call: counted; it returns nothing the caller keeps
Configure ==
    /\ Idle
    /\ nCalls < MaxCalls
    /\ nCalls' = nCalls + 1
    /\ UNCHANGED <<last, npVars, ipVars, heVars>>

\* a call that only reads: validators and tables are left as they are
Query ==
    /\ Idle
    /\ UNCHANGED <<validators, tables, written, nCalls, engines, paramLog,
                   npVars, ipVars, heVars>>

\* history of the call SetMessage(key, constraint, message) on table t, and,
\* with constraint "", of SetDefaultMessage(key, message)
Written(t, key, constraint, message) ==
    LET k == <<t, key, constraint>>
    IN  written' =
            MapPut(written, k,
                   [message |-> message,
                    earlier |-> IF k \in DOMAIN written
                                THEN written[k].earlier \cup {written[k].message}
                                ELSE {}])

\* the caller has read what ValidateCtx or ResolveMessage returned
Return ==
    /\ ~Idle
    /\ last' = NoCall
    /\ UNCHANGED <<validators, tables, written, nCalls, engines, paramLog,
                   npVars, ipVars, heVars>>

\* messages.SetMessage(path, constraint, message) on table t
TableSetMessage(t, path, constraint, message) ==
    /\ Configure
    /\ tables' = [tables EXCEPT ![t] = SetMessage(@, path, constraint, message)]
    /\ Written(t, path, constraint, message)
    /\ UNCHANGED <<validators, engines, paramLog>>

\* messages.SetDefaultMessage(path, message) on table t
TableSetDefaultMessage(t, path, message) ==
    /\ Configure
    /\ tables' = [tables EXCEPT ![t] = SetPathDefault(@, path, message)]
    /\ Written(t, path, "", message)
    /\ UNCHANGED <<validators, engines, paramLog>>

\* messages.ResolveMessage(path, constraint, params, custom) on table t
TableResolveMessage(t, path, constraint, params, custom) ==
    /\ Query
    /\ \E r \in ResolveMessage(tables[t], path, constraint, params, custom) :
          last' = [NoCall EXCEPT !.op = "ResolveMessage", !.table = t,
                                 !.path = path, !.constraint = constraint,
                                 !.params = params, !.custom = custom,
                                 !.result = r]

\* a variant that does not copy the per-constraint defaults
UseMessages_NoTagDefaults(v, t) ==
    /\ Configure
    /\ Len(validators) < MaxValidators
    /\ validators' =
          Append(validators,
                 [validator |-> validators[v].validator,
                  DefaultMessage |-> validators[v].DefaultMessage,
                  DefaultTagMessages |-> [c \in {} |-> <<>>],
                  Messages |-> t,
                  CustomParams |-> validators[v].CustomParams])
    /\ paramLog' = Append(paramLog, paramLog[v])
    /\ UNCHANGED <<tables, written, engines>>

\* v.UseMessages(messages), messages being table t: the new validator holds
\* the same *govalidator.Validate and copies of the defaults and parameters
UseMessages(v, t) ==
    /\ Configure
    /\ Len(validators) < MaxValidators
    /\ validators' =
          Append(validators,
                 [validator |-> validators[v].validator,
                  DefaultMessage |-> validators[v].DefaultMessage,
                  DefaultTagMessages |-> validators[v].DefaultTagMessages,
                  Messages |-> t,
                  CustomParams |-> validators[v].CustomParams])
    /\ paramLog' = Append(paramLog, paramLog[v])
    /\ UNCHANGED <<tables, written, engines>>

\* v.SetDefaultMessage(message)
SetDefaultMessage(v, message) ==
    /\ Configure
    /\ validators' = [validators EXCEPT ![v].DefaultMessage = message]
    /\ UNCHANGED <<tables, written, engines, paramLog>>

\* v.SetDefaultTagMessage(tag, message)
SetDefaultTagMessage(v, tag, message) ==
    /\ Configure
    /\ validators' =
          [validators EXCEPT ![v].DefaultTagMessages = MapPut(@, tag, message)]
    /\ UNCHANGED <<tables, written, engines, paramLog>>

\* a faulty variant: the path is stored as it was given
SetConstraintMessage_Raw(v, path, constraint, message) ==
    /\ Configure
    /\ tables' = [tables EXCEPT ![validators[v].Messages] =
                     SetMessage(@, path, constraint, message)]
    /\ Written(validators[v].Messages, path, constraint, message)
    /\ UNCHANGED <<validators, engines, paramLog>>

\* v.SetConstraintMessage(path, constraint, message)
SetConstraintMessage(v, path, constraint, message) ==
    /\ Configure
    /\ tables' = [tables EXCEPT ![validators[v].Messages] =
                     SetMessage(@, normalizePath(path), constraint, message)]
    /\ Written(validators[v].Messages, normalizePath(path), constraint, message)
    /\ UNCHANGED <<validators, engines, paramLog>>

\* v.SetPathDefaultMessage(path, message)
SetPathDefaultMessage(v, path, message) ==
    /\ Configure
    /\ tables' = [tables EXCEPT ![validators[v].Messages] =
                     SetPathDefault(@, normalizePath(path), message)]
    /\ Written(validators[v].Messages, normalizePath(path), "", message)
    /\ UNCHANGED <<validators, engines, paramLog>>

\* a variant that keeps the value a name already has
AddCustomParam_KeepFirst(v, name, value) ==
    /\ Configure
    /\ validators' =
          [validators EXCEPT ![v].CustomParams =
              IF name \in DOMAIN @ THEN @ ELSE MapPut(@, name, value)]
    /\ paramLog' = [paramLog EXCEPT ![v] =
                       Append(@, [op |-> "add", name |-> name, value |-> value])]
    /\ UNCHANGED <<tables, written, engines>>

\* v.AddCustomParam(name, value)
AddCustomParam(v, name, value) ==
    /\ Configure
    /\ validators' =
          [validators EXCEPT ![v].CustomParams = MapPut(@, name, value)]
    /\ paramLog' = [paramLog EXCEPT ![v] =
                       Append(@, [op |-> "add", name |-> name, value |-> value])]
    /\ UNCHANGED <<tables, written, engines>>

\* v.RemoveCustomParam(name)
RemoveCustomParam(v, name) ==
    /\ Configure
    /\ validators' =
          [validators EXCEPT ![v].CustomParams = MapDelete(@, name)]
    /\ paramLog' = [paramLog EXCEPT ![v] =
                       Append(@, [op |-> "remove", name |-> name,
                                  value |-> NilValue])]
    /\ UNCHANGED <<tables, written, engines>>

\* v.RegisterTagNameFunc(fn): registered with the *govalidator.Validate the
\* validator holds
RegisterTagNameFunc(v, fn) ==
    /\ Configure
    /\ engines' = [engines EXCEPT ![validators[v].validator].tagNameFunc = fn]
    /\ UNCHANGED <<validators, tables, written, paramLog>>

\* v.UseJsonTagName()
UseJsonTagName(v) == RegisterTagNameFunc(v, "json")

\* v.RegisterValidation(tag, fn)
RegisterValidation(v, tag) ==
    /\ Configure
    /\ engines' = [engines EXCEPT ![validators[v].validator].validations =
                      @ \cup {tag}]
    /\ UNCHANGED <<validators, tables, written, paramLog>>

\* v.RegisterAlias(alias, tags)
RegisterAlias(v, alias) ==
    /\ Configure
    /\ engines' = [engines EXCEPT ![validators[v].validator].aliases =
                      @ \cup {alias}]
    /\ UNCHANGED <<validators, tables, written, paramLog>>

\* a faulty variant: the per-constraint default is not consulted
defaultMessageOf_GlobalOnly(val, constraint, params) ==
    interpolateParams(val.DefaultMessage, params, val.CustomParams)

\* the last fallback of ValidateCtx: the per-constraint default when one is
\* registered for the constraint, else the global default
defaultMessageOf(val, constraint, params) ==
    IF constraint \in DOMAIN val.DefaultTagMessages
    THEN interpolateParams(val.DefaultTagMessages[constraint], params,
                           val.CustomParams)
    ELSE interpolateParams(val.DefaultMessage, params, val.CustomParams)

\* the body of the loop of ValidateCtx: the ValidationError values that one
\* failure of a value of type inputType can produce under a validator with
\* the fields of val whose Messages is the table `messages`
ValidationErrorsIn(val, messages, inputType, err) ==
    LET structType == IF Kind(inputType) = "ptr" THEN Elem(inputType)
                      ELSE inputType
        path == getFullPath(err)
        normPath == normalizePath(path)
        constraint == err.ActualTag
        valError == [Field |-> err.Field, Path |-> path,
                     Constraint |-> constraint, Param |-> err.Param,
                     Actual |-> err.Value, Message |-> <<>>]
        params == CreateValidationParams(valError)
        sf == getStructFieldFromNamespace(structType, err.StructNamespace,
                                          err.StructField)
        tagMessage == IF sf.found THEN getRawTagMessage(sf.field, constraint)
                      ELSE <<>>
        fromTag == IF tagMessage # <<>>
                   THEN interpolateParams(tagMessage, params, val.CustomParams)
                   ELSE { <<>> }
        fromTable(message) ==
            IF message = <<>>
            THEN ResolveMessage(messages, normPath, constraint,
                                params, val.CustomParams)
            ELSE { message }
        fromDefaults(message) ==
            IF message = <<>> THEN defaultMessageOf(val, constraint, params)
            ELSE { message }
    IN  { [valError EXCEPT !.Message = m3] :
            m3 \in UNION { fromDefaults(m2) :
                     m2 \in UNION { fromTable(m1) : m1 \in fromTag } } }

\* the loop body under validator val, v.Messages being tables[val.Messages]
ValidationErrorsOf(val, inputType, err) ==
    ValidationErrorsIn(val, tables[val.Messages], inputType, err)

\* a variant whose errors carry the normalized path
RECURSIVE ValidationErrorsFor_NormPath(_, _, _)
ValidationErrorsFor_NormPath(val, inputType, failures) ==
    IF failures = <<>> THEN { <<>> }
    ELSE { <<[e EXCEPT !.Path = normalizePath(e.Path)]>> \o rest :
             e \in ValidationErrorsOf(val, inputType, Head(failures)),
             rest \in ValidationErrorsFor_NormPath(val, inputType, Tail(failures)) }

\* the ValidationErrors the loop can build from the failures
RECURSIVE ValidationErrorsFor(_, _, _)
ValidationErrorsFor(val, inputType, failures) ==
    IF failures = <<>> THEN { <<>> }
    ELSE { <<e>> \o rest :
             e \in ValidationErrorsOf(val, inputType, Head(failures)),
             rest \in ValidationErrorsFor(val, inputType, Tail(failures)) }

\* v.ValidateCtx(ctx, i): nil when StructCtx reports no failure, else one
\* ValidationError for each failure
ValidateCtx(v, i) ==
    /\ Query
    /\ LET failures == StructCtx(engines[validators[v].validator], i)
       IN  \E errs \in ValidationErrorsFor(validators[v], i.type, failures) :
              last' = [NoCall EXCEPT !.op = "ValidateCtx", !.v = v,
                                     !.type = i.type, !.failures = failures,
                                     !.errors = errs,
                                     !.isNil = (failures = <<>>)]

-----------------------------------------------------------------------------
(* Calls of the functions of errors.go and utils.go *)

\* the errors of a ValidationErrors value: two paths, two messages
ErrorInputs ==
    { [Field |-> <<"N">>, Path |-> p, Constraint |-> "required",
       Param |-> <<>>, Actual |-> NilValue, Message |-> m] :
          p \in { <<"a">>, <<"b", "[", "1", "]">> },
          m \in { <<"1">>, <<"2">> } }

ErrorsInputs == UNION { [1..n -> ErrorInputs] : n \in 0..MaxErrors }

\* the paths handed to ErrorsForPath: the two that occur and one that does not
ErrorPaths == { <<"a">>, <<"b", "[", "1", "]">>, <<"b", "[", "]">> }

NoHelperCall == [op |-> "none", args |-> <<>>, result |-> <<>>]

\* no function of errors.go or utils.go has been called
HelpersIdle == call = NoHelperCall

HelperUnchanged == UNCHANGED <<npVars, ipVars, vaVars>>

\* grouped := ve.GroupErrorsByPath(); ve is read, not written
CallGroupErrorsByPath ==
    /\ call = NoHelperCall
    /\ \E ve \in ErrorsInputs :
          call' = [op |-> "GroupErrorsByPath", args |-> [ve |-> ve],
                   result |-> [value |-> GroupErrorsByPath(ve), ve |-> ve]]
    /\ HelperUnchanged

\* pathErrors := ve.ErrorsForPath(path); ve is read, not written
CallErrorsForPath ==
    /\ call = NoHelperCall
    /\ \E ve \in ErrorsInputs, path \in ErrorPaths :
          call' = [op |-> "ErrorsForPath", args |-> [ve |-> ve, path |-> path],
                   result |-> [value |-> ErrorsForPath(ve, path), ve |-> ve]]
    /\ HelperUnchanged

\* the fields whose tags getRawTagMessage reads
TagFields ==
    UNION { { TypeTable[t].fields[k] : k \in 1..Len(TypeTable[t].fields) } :
               t \in {"U", "T", "C", "R", "E"} }

\* message := getRawTagMessage(field, constraint)
CallGetRawTagMessage ==
    /\ call = NoHelperCall
    /\ \E field \in TagFields, constraint \in Constraints :
          call' = [op |-> "getRawTagMessage",
                   args |-> [field |-> field, constraint |-> constraint],
                   result |-> [value |-> getRawTagMessage(field, constraint)]]
    /\ HelperUnchanged

\* the segments a namespace is written from: fields that exist and one that
\* does not, with and without an index or a key
Segments ==
    { <<"I", "[", "2", "]">>,
      <<"I">>,
      <<"I", "[", "k", "]">>,
      <<"K", "[", "0", "]">>,
      <<"M", "[", "k", "]">>,
      <<"M", "[", "0", "]">>,
      <<"W", "[", "k", "]">>,
      <<"G", "[", "k", "]">>,
      <<"Q">>,
      <<"Q", "[", "1", "]">>,
      <<"N">>,
      <<"N", "[", "1", "]">>,
      <<"E">>,
      <<"Z">> }

RECURSIVE JoinDots(_)
JoinDots(parts) ==
    IF Len(parts) = 1 THEN parts[1]
    ELSE parts[1] \o <<".">> \o JoinDots(Tail(parts))

\* the namespaces: the root segment and up to MaxSegments segments
NamespaceInputs ==
    { JoinDots(<<<<"U">>>> \o segs) :
          segs \in UNION { [1..n -> Segments] : n \in 0..MaxSegments } }

\* the root types: none, a struct, pointers to it, and types that are no
\* struct
RootTypes == { "nil", "U", "*U", "**U", "T", "string", "[]T" }

\* the leaf names handed over with a namespace: its last segment, and that
\* segment without its index or key
LeafNames(namespace) ==
    LET parts == SplitDots(namespace)
        leaf == parts[Len(parts)]
    IN  { leaf, parseSegment(leaf).fieldName }

\* field, found := getStructFieldFromNamespace(structType, namespace, leaf)
CallGetStructFieldFromNamespace ==
    /\ call = NoHelperCall
    /\ \E structType \in RootTypes, namespace \in NamespaceInputs :
          \E leaf \in LeafNames(namespace) :
              call' = [op |-> "getStructFieldFromNamespace",
                       args |-> [structType |-> structType,
                                 namespace |-> namespace, leaf |-> leaf],
                       result |-> getStructFieldFromNamespace(
                                      structType, namespace, leaf)]
    /\ HelperUnchanged

HelpersNext ==
    \/ CallGroupErrorsByPath
    \/ CallErrorsForPath
    \/ CallGetRawTagMessage
    \/ CallGetStructFieldFromNamespace

HelpersStart ==
    /\ call = NoHelperCall
    /\ NormalizeIdle
    /\ InterpolateIdle
    /\ ValidatorIdle

SpecHelpers == HelpersStart /\ [][HelpersNext]_vars


NormalizeNext == Normalize \/ NormalizeAgain \/ NormalizeReindexed

NormalizeStart ==
    NormalizeInit /\ InterpolateIdle /\ ValidatorIdle /\ HelpersIdle

SpecNormalize == NormalizeStart /\ [][NormalizeNext]_vars

InterpolateNext == Interpolate

InterpolateStart ==
    InterpolateInit /\ NormalizeIdle /\ ValidatorIdle /\ HelpersIdle

SpecInterpolate == InterpolateStart /\ [][InterpolateNext]_vars

Init == ValidatorInit /\ NormalizeIdle /\ InterpolateIdle /\ HelpersIdle

Next ==
    \/ \E t \in DOMAIN tables, p \in TablePaths, c \in Constraints,
          m \in Templates : TableSetMessage(t, p, c, m)
    \/ \E t \in DOMAIN tables, p \in TablePaths, m \in Templates :
          TableSetDefaultMessage(t, p, m)
    \/ \E t \in DOMAIN tables, p \in ResolvePaths, c \in Constraints,
          a \in ResolveArgs : TableResolveMessage(t, p, c, a.params, a.custom)
    \/ \E v \in DOMAIN validators, t \in DOMAIN tables : UseMessages(v, t)
    \/ \E v \in DOMAIN validators, m \in Templates : SetDefaultMessage(v, m)
    \/ \E v \in DOMAIN validators, c \in Constraints, m \in Templates :
          SetDefaultTagMessage(v, c, m)
    \/ \E v \in DOMAIN validators, p \in SetterPaths, c \in Constraints,
          m \in Templates : SetConstraintMessage(v, p, c, m)
    \/ \E v \in DOMAIN validators, p \in SetterPaths, m \in Templates :
          SetPathDefaultMessage(v, p, m)
    \/ \E v \in DOMAIN validators, x \in CustomValues :
          AddCustomParam(v, CustomName, x)
    \/ \E v \in DOMAIN validators : RemoveCustomParam(v, CustomName)
    \/ \E v \in DOMAIN validators, fn \in TagNameFuncs :
          RegisterTagNameFunc(v, fn)
    \/ \E v \in DOMAIN validators : UseJsonTagName(v)
    \/ \E v \in DOMAIN validators, tag \in CustomTags : RegisterValidation(v, tag)
    \/ \E v \in DOMAIN validators, a \in Aliases : RegisterAlias(v, a)
    \/ \E v \in DOMAIN validators, i \in ValidateInputs : ValidateCtx(v, i)
    \/ Return

Spec == Init /\ [][Next]_vars

-----------------------------------------------------------------------------
(* Properties of normalizePath *)

PathChars == UNION { { p[i] : i \in 1..Len(p) } : p \in PathPieces }

\* number of matches of \[\d+\] in s, scanning like the regexp engine
RECURSIVE CountIndicesFrom(_, _)
CountIndicesFrom(s, i) ==
    IF i > Len(s) THEN 0
    ELSE LET e == IndexMatchEnd(s, i)
         IN  IF e > 0 THEN 1 + CountIndicesFrom(s, e + 1)
             ELSE CountIndicesFrom(s, i + 1)

\* number of positions of s where [] stands
CountGeneric(s) ==
    Cardinality({ i \in 1..Len(s) : HasPrefixAt(s, i, <<"[", "]">>) })

\* C3: normalizePath returns a string for every input, and normalizing its
\* result again returns that result: normalizePath(normalizePath(p)) =
\* normalizePath(p).
C3_NormalizeIdempotent ==
    /\ npPc # "start" => npOut \in Seq(PathChars)
    /\ npPc = "renormalized" => npOut2 = npOut

\* an index-bearing, space-padded path has been normalized twice
C3_Witness ==
    /\ npPc = "renormalized"
    /\ npIn = <<"[", " ", "0", "]">>
    /\ npOut = <<"[", "]">>
    /\ npOut2 = npOut

\* C4: the result of normalizePath holds no bracketed run of digits, one []
\* for every index of the input (adjacent ones included), no two dots in a
\* row, it is empty for an empty or whitespace-only input, and two paths
\* that differ only in their numeric indices have the same result.
C4_IndicesAndDots ==
    /\ npPc # "start" =>
          /\ ~HasIndex(npOut)
          /\ CountGeneric(npOut)
                >= CountIndicesFrom(ReplaceAll(TrimSpace(npIn), <<" ">>, <<>>), 1)
          /\ \A i \in 1..Len(npOut) : ~HasPrefixAt(npOut, i, <<".", ".">>)
          /\ (\A i \in 1..Len(npIn) : IsSpace(npIn[i])) => npOut = <<>>
    /\ npPc = "reindexed" => npOut2 = npOut

\* a[0][12] was normalized to a[][] and so was a re-indexed a[7][31]
C4_Witness ==
    /\ npPc = "reindexed"
    /\ npIn = <<"a", "[", "0", "]", "[", "1", "2", "]">>
    /\ npIn2 = <<"a", "[", "7", "]", "[", "3", "1", "]">>
    /\ npOut = <<"a", "[", "]", "[", "]">>
    /\ npOut2 = npOut

\* C5: the result of normalizePath holds no whitespace character of any
\* kind (space, tab, newline), for any input.
C5_NoWhitespaceInResult ==
    npPc # "start" => \A i \in 1..Len(npOut) : ~IsSpace(npOut[i])

-----------------------------------------------------------------------------
(* Properties of interpolateParams *)

\* what a piece of the template becomes when escaped placeholders are kept
\* literally: {{x}} becomes {x}, any other piece is interpolated on its own
PieceOutcomes(p, params, custom) ==
    IF p.kind = "escaped" THEN { <<"{">> \o p.name \o <<"}">> }
    ELSE interpolateParams(PieceText(p), params, custom)

RECURSIVE PiecewiseOutcomes(_, _, _)
PiecewiseOutcomes(ps, params, custom) ==
    IF ps = <<>> THEN { <<>> }
    ELSE { h \o t : h \in PieceOutcomes(Head(ps), params, custom),
                    t \in PiecewiseOutcomes(Tail(ps), params, custom) }

\* C10: an escaped placeholder {{x}} is never interpolated: the result holds
\* the literal text {x} in its place, while the unescaped placeholders of
\* the same template are substituted as they are on their own.
C10_EscapedKeptLiteral ==
    ipPc = "done" =>
        ipOut \in PiecewiseOutcomes(ipPieces, ipParams,
                                    mergeCustomParams(ipCustom))

\* the interpolation has returned
Interpolated == ipPc = "done"

\* the pieces of the template are all of the given kinds and names
PiecesAmong(kinds, names) ==
    \A i \in 1..Len(ipPieces) :
        ipPieces[i].kind \in kinds /\ ipPieces[i].name \in names

\* the literal text {name}
Braced(name) == <<"{">> \o name \o <<"}">>

\* the text an escaped-only template stands for: {{x}}{{y}} is {x}{y}
RECURSIVE Unescaped(_)
Unescaped(ps) ==
    IF ps = <<>> THEN <<>> ELSE Braced(Head(ps).name) \o Unescaped(Tail(ps))

\* C11: a template made only of escaped placeholders is returned in its
\* unescaped literal form, {{x}} as {x}, whatever positional and custom
\* parameters are supplied, also when there are none at all.
C11_EscapedOnlyUnescaped ==
    (Interpolated /\ ipPieces # <<>> /\ PiecesAmong({"escaped"}, PieceNames))
        => ipOut = Unescaped(ipPieces)

\* the overlays that give a name a value, by position
OverlaysWith(name) == { i \in 1..Len(ipCustom) : name \in DOMAIN ipCustom[i] }

LastOverlayWith(name) ==
    CHOOSE i \in OverlaysWith(name) : \A j \in OverlaysWith(name) : j <= i

\* the positional entry a built-in name stands for
BuiltinIndex(name) ==
    IF name = FieldName THEN 0 ELSE IF name = ValueName THEN 1 ELSE 2

BuiltinNames == {FieldName, ValueName, ParamName}

\* a name has a value: some overlay gives it one, or it is a built-in name
\* whose positional entry exists
HasNamedValue(name) ==
    \/ OverlaysWith(name) # {}
    \/ name \in BuiltinNames /\ BuiltinIndex(name) < Len(ipParams)

\* the value of a name: the last overlay's that has it, else the positional
\* entry of the built-in name
NamedValue(name) ==
    IF OverlaysWith(name) # {} THEN ipCustom[LastOverlayWith(name)][name]
    ELSE ipParams[BuiltinIndex(name) + 1]

\* the text a value is rendered as in a named substitution
Rendered(v) == IF v.nil THEN <<>> ELSE v.s

HasBrace(s) == \E i \in 1..Len(s) : s[i] \in {"{", "}"}

\* C12: in the template {name}, field, value and param stand for the
\* positional entries 0, 1 and 2; a custom parameter of the same name
\* replaces the built-in value, and of several overlays that define a name
\* the last one's value is used.
C12_NamedPrecedence ==
    (/\ Interpolated
     /\ Len(ipPieces) = 1
     /\ PiecesAmong({"live"}, BuiltinNames \cup {CustomName})
     /\ HasNamedValue(ipPieces[1].name)
     /\ ~HasBrace(Rendered(NamedValue(ipPieces[1].name))))
        => ipOut = Rendered(NamedValue(ipPieces[1].name))

\* two overlays define n, the second one's value is in the result
C12_Witness ==
    /\ Interpolated
    /\ ipPieces = <<Piece("live", CustomName)>>
    /\ Len(ipCustom) = 2
    /\ OverlaysWith(CustomName) = {1, 2}
    /\ ipOut = <<"Z">>

\* what C13 expects of a piece: {0n} stays, {n1} becomes its custom value
C13_Expected(p) ==
    IF p.kind = "live" /\ p.name = DigitHeldName
       /\ OverlaysWith(DigitHeldName) # {}
    THEN Rendered(NamedValue(DigitHeldName))
    ELSE PieceText(p)

RECURSIVE C13_ExpectedAll(_)
C13_ExpectedAll(ps) ==
    IF ps = <<>> THEN <<>>
    ELSE C13_Expected(Head(ps)) \o C13_ExpectedAll(Tail(ps))

\* C13: a placeholder whose name starts with a digit and is no index, {0n},
\* is never substituted, also when a custom parameter of that name is
\* registered; a placeholder whose name holds a digit after its first
\* character, {n1}, is substituted when a parameter of that name exists.
C13_DigitLedNeverSubstituted ==
    (Interpolated /\ PiecesAmong({"live"}, {DigitLedName, DigitHeldName}))
        => ipOut = C13_ExpectedAll(ipPieces)

\* both names are registered; {0n} stays and {n1} is replaced
C13_Witness ==
    /\ Interpolated
    /\ ipPieces = <<Piece("live", DigitLedName), Piece("live", DigitHeldName)>>
    /\ OverlaysWith(DigitLedName) # {}
    /\ OverlaysWith(DigitHeldName) # {}
    /\ ipOut = Braced(DigitLedName) \o <<"Y">>

\* the index a placeholder's content denotes: it is the decimal form,
\* without leading zeros, of an index into the positional list
IndexNames == { <<"0">>, <<"2">>, <<"1", "0">>, <<"0", "0", "7">> }

IsIndexInRange(name) == \E k \in 0..(Len(ipParams) - 1) : Itoa(k) = name

IndexOf(name) == CHOOSE k \in 0..(Len(ipParams) - 1) : Itoa(k) = name

C14_Expected(p) ==
    IF p.kind = "live" /\ IsIndexInRange(p.name)
    THEN Sprintf(ipParams[IndexOf(p.name) + 1])
    ELSE PieceText(p)

RECURSIVE C14_ExpectedAll(_)
C14_ExpectedAll(ps) ==
    IF ps = <<>> THEN <<>>
    ELSE C14_Expected(Head(ps)) \o C14_ExpectedAll(Tail(ps))

\* the indexed entries the template refers to are not nil
C14_NoNilReferred ==
    \A i \in 1..Len(ipPieces) :
        (ipPieces[i].kind = "live" /\ IsIndexInRange(ipPieces[i].name))
            => ~ipParams[IndexOf(ipPieces[i].name) + 1].nil

\* C14: every occurrence of {n}, n written without leading zeros and
\* 0 <= n < len(positional), also with two digits, is replaced by the string
\* form of positional[n]; {007} and an index outside the list stay as
\* literal text.
C14_PositionalSubstitution ==
    (/\ Interpolated
     /\ PiecesAmong({"live", "text"}, IndexNames \cup {<<"a">>})
     /\ C14_NoNilReferred)
        => ipOut = C14_ExpectedAll(ipPieces)

\* {10} is replaced by the eleventh entry and {007} stays
C14_Witness ==
    /\ Interpolated
    /\ ipPieces = <<Piece("live", <<"1", "0">>), Piece("live", <<"0", "0", "7">>)>>
    /\ Len(ipParams) = 11
    /\ ipOut = <<"L">> \o Braced(<<"0", "0", "7">>)

\* the value a placeholder of the template {name} refers to is nil
RefersToNil(name) ==
    \/ /\ name \in BuiltinNames
       /\ OverlaysWith(name) = {}
       /\ BuiltinIndex(name) < Len(ipParams)
       /\ ipParams[BuiltinIndex(name) + 1].nil
    \/ /\ IsIndexInRange(name)
       /\ ipParams[IndexOf(name) + 1].nil

\* C15: a nil value renders as the empty string wherever it is substituted,
\* in the named placeholder {param} and in the positional placeholder {2}
\* alike.
C15_NilRendersEmpty ==
    (/\ Interpolated
     /\ Len(ipPieces) = 1
     /\ ipPieces[1].kind = "live"
     /\ RefersToNil(ipPieces[1].name))
        => ipOut = <<>>

\* C16: a template without placeholders is returned unchanged for any
\* parameters, and a placeholder whose name is in neither the built-in table
\* nor any overlay, {x}, and a name that holds braces, {a{x}}, stay in the
\* result as written.
C16_LiteralPassThrough ==
    (/\ Interpolated
     /\ \A i \in 1..Len(ipPieces) :
           \/ ipPieces[i] = Piece("text", <<"a">>)
           \/ ipPieces[i] = Piece("live", <<"x">>)
           \/ ipPieces[i] = Piece("live", BraceName))
        => ipOut = TemplateOf(ipPieces)

\* {x}{a{x}} has gone through the substitution passes and is unchanged
C16_Witness ==
    /\ Interpolated
    /\ ipPieces = <<Piece("live", <<"x">>), Piece("live", BraceName)>>
    /\ Len(ipParams) = 3
    /\ OverlaysWith(BraceName) # {}
    /\ ipOut = TemplateOf(ipPieces)


-----------------------------------------------------------------------------
(* Properties of the validator *)

\* ValidateCtx has returned and the caller holds its result
Validated == last.op = "ValidateCtx"

\* the failures of that call, by position
Failures == 1..Len(last.failures)

\* the interpolation parameters ValidateCtx builds for a failure
ParamsOf(f) ==
    <<StrValue(f.Field), f.Value,
      IF f.Param # <<>> THEN StrValue(f.Param) ELSE NilValue>>

\* the struct-tag template of the failing field for the failed constraint
\* ("" when the field carries none)
TagTemplate(inputType, f) ==
    LET sf == getStructFieldFromNamespace(
                  IF Kind(inputType) = "ptr" THEN Elem(inputType) ELSE inputType,
                  f.StructNamespace, f.StructField)
    IN  IF sf.found THEN getRawTagMessage(sf.field, f.ActualTag) ELSE <<>>

\* the registry key of a failure
KeyOf(f) == normalizePath(getFullPath(f))

\* table vm holds a template for the constraint at the key: the constraint's
\* own, or the non-empty default of the path
RegistryHas(vm, key, constraint) ==
    /\ key \in DOMAIN vm
    /\ \/ constraint \in DOMAIN vm[key].Constraints
       \/ vm[key].Default # <<>>

RegistryTemplate(vm, key, constraint) ==
    IF constraint \in DOMAIN vm[key].Constraints
    THEN vm[key].Constraints[constraint]
    ELSE vm[key].Default

\* what the struct-tag tier, the registry tier and the two default tiers yield
\* for failure i of the last call
TagTier(i) ==
    LET f == last.failures[i]
        val == validators[last.v]
    IN  IF TagTemplate(last.type, f) # <<>>
        THEN interpolateParams(TagTemplate(last.type, f), ParamsOf(f),
                               val.CustomParams)
        ELSE { <<>> }

RegistryTier(i) ==
    LET f == last.failures[i]
        val == validators[last.v]
        vm == tables[val.Messages]
    IN  IF RegistryHas(vm, KeyOf(f), f.ActualTag)
        THEN interpolateParams(RegistryTemplate(vm, KeyOf(f), f.ActualTag),
                               ParamsOf(f), val.CustomParams)
        ELSE { <<>> }

ConstraintDefaultTier(i) ==
    LET f == last.failures[i]
        val == validators[last.v]
    IN  interpolateParams(val.DefaultTagMessages[f.ActualTag], ParamsOf(f),
                          val.CustomParams)

GlobalDefaultTier(i) ==
    LET f == last.failures[i]
        val == validators[last.v]
    IN  interpolateParams(val.DefaultMessage, ParamsOf(f), val.CustomParams)

HasConstraintDefault(i) ==
    last.failures[i].ActualTag \in DOMAIN validators[last.v].DefaultTagMessages

C2_MessageNeverEmpty ==
    Validated =>
        \A i \in Failures :
            (<<>> \notin GlobalDefaultTier(i)) => last.errors[i].Message # <<>>

\* the paths of the failures the setters' paths are resolved for
FailurePaths == { <<"I", "[", "1", "]", ".", "N">>, <<"I", "[", "3", "]", ".", "N">>, <<"A">>, <<"N">> }

\* C6: a template handed to Validator.SetConstraintMessage under a path p is
\* what ResolveMessage returns, interpolated, for that constraint at the
\* normalized form of every failure path q with normalizePath(q) =
\* normalizePath(p); a non-empty template handed to
\* Validator.SetPathDefaultMessage is what it returns for every constraint
\* that has no template of its own there.
C6_SetterNormalizes ==
    [][\A v \in DOMAIN validators, p \in SetterPaths, m \in Templates :
          LET vm == tables'[validators[v].Messages]
              resolvedAs(key, c, a) ==
                  ResolveMessage(vm, key, c, a.params, a.custom)
                      = interpolateParams(m, a.params, a.custom)
              sameKey == { normalizePath(q) : q \in
                             { q \in FailurePaths :
                                 normalizePath(q) = normalizePath(p) } }
          IN  /\ \A c \in Constraints :
                    SetConstraintMessage(v, p, c, m) =>
                        \A key \in sameKey, a \in ResolveArgs :
                            resolvedAs(key, c, a)
              /\ SetPathDefaultMessage(v, p, m) /\ m # <<>> =>
                    \A key \in sameKey, a \in ResolveArgs :
                        \A c \in Constraints \ DOMAIN vm[key].Constraints :
                            resolvedAs(key, c, a)
      ]_vars

\* a failure at I[1].N whose message is the template registered through a
\* setter of the validator (only these store under the key I[].N)
C6_Witness ==
    /\ Validated
    /\ last.type = "P"
    /\ \E i \in Failures :
          /\ last.failures[i] = FailItemMin(<<"P">>)
          /\ RegistryHas(tables[validators[last.v].Messages],
                         <<"I", "[", "]", ".", "N">>, "min")
          /\ <<validators[last.v].Messages, <<"I", "[", "]", ".", "N">>, "min">>
                \in DOMAIN written
          /\ last.errors[i].Message = <<"3">>
          /\ last.errors[i].Message \in RegistryTier(i)

\* C7: a template handed to ValidationMessages.SetMessage or
\* ValidationMessages.SetDefaultMessage under a path p is stored under
\* normalizePath(p): it is what ResolveMessage returns, interpolated, at the
\* normalized form of every failure path q with normalizePath(q) =
\* normalizePath(p).
C7_TableSettersNormalize ==
    [][\A t \in DOMAIN tables, p \in TablePaths, m \in Templates :
          LET vm == tables'[t]
              resolvedAs(key, c, a) ==
                  ResolveMessage(vm, key, c, a.params, a.custom)
                      = interpolateParams(m, a.params, a.custom)
              sameKey == { normalizePath(q) : q \in
                             { q \in FailurePaths :
                                 normalizePath(q) = normalizePath(p) } }
          IN  /\ \A c \in Constraints :
                    TableSetMessage(t, p, c, m) =>
                        \A key \in sameKey, a \in ResolveArgs :
                            resolvedAs(key, c, a)
              /\ TableSetDefaultMessage(t, p, m) /\ m # <<>> =>
                    \A key \in sameKey, a \in ResolveArgs :
                        /\ key \in DOMAIN vm
                        /\ \A c \in Constraints \ DOMAIN vm[key].Constraints :
                              resolvedAs(key, c, a)
      ]_vars

\* ResolveMessage has returned and the caller holds its result
Resolved == last.op = "ResolveMessage"

\* C8: ResolveMessage returns "" for a path without entry; for a path with an
\* entry it returns the interpolated template of the constraint when one is
\* registered, else the interpolated default of the path when that is
\* non-empty, else "".
C8_ResolveMessage ==
    Resolved =>
        LET vm == tables[last.table]
            interpolated(template) ==
                interpolateParams(template, last.params, last.custom)
        IN  IF last.path \notin DOMAIN vm THEN last.result = <<>>
            ELSE IF last.constraint \in DOMAIN vm[last.path].Constraints
            THEN last.result
                    \in interpolated(vm[last.path].Constraints[last.constraint])
            ELSE IF vm[last.path].Default # <<>>
            THEN last.result \in interpolated(vm[last.path].Default)
            ELSE last.result = <<>>

\* the constraint's template was returned, interpolated, for a path that also
\* has a different default
C8_Witness ==
    /\ Resolved
    /\ last.path \in DOMAIN tables[last.table]
    /\ LET config == tables[last.table][last.path]
       IN  /\ last.constraint \in DOMAIN config.Constraints
           /\ config.Default # <<>>
           /\ config.Constraints[last.constraint] # <<>>
           /\ last.result # config.Constraints[last.constraint]
           /\ last.result \notin
                 interpolateParams(config.Default, last.params, last.custom)

\* C9: the template a table holds for a key and constraint, and the default
\* it holds for a key, is the one passed by the most recent call that set it;
\* nothing is held that no call has set.
C9_LastWriteWins ==
    \A t \in DOMAIN tables :
        /\ \A key \in DOMAIN tables[t] :
              /\ \A c \in DOMAIN tables[t][key].Constraints :
                    /\ <<t, key, c>> \in DOMAIN written
                    /\ tables[t][key].Constraints[c] = written[<<t, key, c>>].message
              /\ tables[t][key].Default =
                    IF <<t, key, "">> \in DOMAIN written
                    THEN written[<<t, key, "">>].message ELSE <<>>
        /\ \A k \in DOMAIN written :
              k[1] = t =>
                  /\ k[2] \in DOMAIN tables[t]
                  /\ k[3] # "" => k[3] \in DOMAIN tables[t][k[2]].Constraints

\* a template set through a setter of the validator has replaced a different
\* earlier one
C9_Witness ==
    \E k \in DOMAIN written :
        /\ k[2] = <<"I", "[", "]", ".", "N">>
        /\ k[3] # ""
        /\ written[k].earlier # {}
        /\ written[k].message \notin written[k].earlier
        /\ tables[k[1]][k[2]].Constraints[k[3]] = written[k].message

\* the calls of the history that name the parameter, by position
CallsOn(log, name) == { k \in 1..Len(log) : log[k].name = name }

LastCallOn(log, name) ==
    CHOOSE k \in CallsOn(log, name) : \A j \in CallsOn(log, name) : j <= k

\* the name was added and not removed since
IsRegistered(log, name) ==
    CallsOn(log, name) # {} /\ log[LastCallOn(log, name)].op = "add"

\* the parameters the history of calls stands for: each name with the value
\* of its most recent AddCustomParam that no RemoveCustomParam followed
RegisteredParams(log) ==
    [n \in { m \in {CustomName} : IsRegistered(log, m) } |->
        log[LastCallOn(log, n)].value]

\* what ValidateCtx returns when {name} in the text a tier yields is replaced
\* by the registered value, and left alone when there is none
ErrorsWithRegistered(v, type, failures) ==
    LET reg == RegisteredParams(paramLog[v])
        put(m) == IF CustomName \in DOMAIN reg
                  THEN ReplaceAll(m, Braced(CustomName), Sprintf(reg[CustomName]))
                  ELSE m
    IN  { [k \in 1..Len(errs) |-> [errs[k] EXCEPT !.Message = put(@)]] :
            errs \in ValidationErrorsFor(
                         [validators[v] EXCEPT !.CustomParams = EmptyCustom],
                         type, failures) }

\* C17: after any sequence of AddCustomParam and RemoveCustomParam calls, a
\* validator's parameters are those of the most recent AddCustomParam of each
\* name that no RemoveCustomParam followed, so that removing a name that is
\* not registered changes nothing; {name} in the template of any tier is
\* replaced by that value and stays literal when the name was never added or
\* was removed.
C17_CustomParamLifecycle ==
    /\ \A v \in DOMAIN validators :
          validators[v].CustomParams = RegisteredParams(paramLog[v])
    /\ Validated =>
          last.errors \in ErrorsWithRegistered(last.v, last.type, last.failures)

\* n was added twice and the struct-tag template Q{field}{n} carries the
\* second value
C17_Witness ==
    /\ Validated
    /\ Len(paramLog[last.v]) = 2
    /\ paramLog[last.v][1].op = "add"
    /\ paramLog[last.v][2].op = "add"
    /\ paramLog[last.v][1].value # paramLog[last.v][2].value
    /\ \E k \in Failures :
          last.errors[k].Message = <<"Q", "N">> \o paramLog[last.v][2].value.s

\* the step derives a validator: the new one holds the base's defaults and
\* parameters and a registry, and the ones there were are as they were
DerivesFrom(v) ==
    LET new == validators'[Len(validators')]
    IN  /\ new.DefaultMessage = validators[v].DefaultMessage
        /\ new.DefaultTagMessages = validators[v].DefaultTagMessages
        /\ new.CustomParams = validators[v].CustomParams
        /\ new.Messages \in DOMAIN tables
        /\ SubSeq(validators', 1, Len(validators)) = validators

\* the step changes the defaults or parameters of at most one validator
ChangesOneValidator ==
    \E a \in DOMAIN validators :
        \A b \in DOMAIN validators \ {a} :
            /\ validators'[b].DefaultMessage = validators[b].DefaultMessage
            /\ validators'[b].DefaultTagMessages = validators[b].DefaultTagMessages
            /\ validators'[b].CustomParams = validators[b].CustomParams

ResultsOf(val, messages, engine) ==
    [i \in ValidateInputs |->
        [k \in 1..Len(i.failures) |->
            ValidationErrorsIn(val, messages, i.type, StructCtx(engine, i)[k])]]

\* the step is a configuration call on validator d
ConfiguresValidator(d) ==
    \/ \E m \in Templates : SetDefaultMessage(d, m)
    \/ \E c \in Constraints, m \in Templates : SetDefaultTagMessage(d, c, m)
    \/ \E p \in SetterPaths, c \in Constraints, m \in Templates :
          SetConstraintMessage(d, p, c, m)
    \/ \E p \in SetterPaths, m \in Templates : SetPathDefaultMessage(d, p, m)
    \/ \E x \in CustomValues : AddCustomParam(d, CustomName, x)
    \/ RemoveCustomParam(d, CustomName)
    \/ \E fn \in TagNameFuncs : RegisterTagNameFunc(d, fn)
    \/ UseJsonTagName(d)
    \/ \E tag \in CustomTags : RegisterValidation(d, tag)
    \/ \E a \in Aliases : RegisterAlias(d, a)

\* d was derived over a registry that is not its base's
DerivedOverOwnRegistry(b, d) ==
    /\ b \in DOMAIN validators
    /\ d \in DOMAIN validators
    /\ b < d
    /\ validators[b].Messages # validators[d].Messages

\* C19: a base validator and a validator derived from it share no mutable
\* storage: no configuration call on the derived validator changes the
\* ValidationErrors (Field, Path, Constraint, Message) the base returns.
C19_DerivedLeavesBaseAlone ==
    [][ \A b, d \in DOMAIN validators :
           (DerivedOverOwnRegistry(b, d) /\ ConfiguresValidator(d))
               => ResultsOf(validators'[b], tables'[validators'[b].Messages],
                            engines'[validators'[b].validator])
                  = ResultsOf(validators[b], tables[validators[b].Messages],
                              engines[validators[b].validator]) ]_vars

\* the text after the first dot of a namespace
AfterFirstDot(ns) ==
    LET dots == { k \in 1..Len(ns) : ns[k] = "." }
    IN  IF dots = {} THEN ns
        ELSE SubSeq(ns, (CHOOSE k \in dots : \A j \in dots : k <= j) + 1, Len(ns))

\* C20: a failing validation returns one ValidationError for each failure
\* the underlying validator reports, in the same order, and a passing one
\* returns nil; each error carries the failure's field name, constraint,
\* parameter and value, and its Path is the failure's namespace without the
\* root type, the indices as they are.
C20_OneErrorPerFailure ==
    Validated =>
        /\ last.isNil <=> last.failures = <<>>
        /\ Len(last.errors) = Len(last.failures)
        /\ \A k \in Failures :
              /\ last.errors[k].Field = last.failures[k].Field
              /\ last.errors[k].Constraint = last.failures[k].ActualTag
              /\ last.errors[k].Param = last.failures[k].Param
              /\ last.errors[k].Actual = last.failures[k].Value
              /\ last.errors[k].Path = AfterFirstDot(last.failures[k].Namespace)

\* two failures, the second one in the element 1 of the slice
C20_Witness ==
    /\ Validated
    /\ Len(last.errors) = 2
    /\ last.errors[1].Path = <<"N">>
    /\ last.errors[2].Path = <<"I", "[", "1", "]", ".", "N">>
    /\ last.errors[2].Constraint = "min"
    /\ last.errors[2].Param = <<"3">>


\* the errors of ve whose Path is p, in their order
WithPath(ve, p) == SelectSeq(ve, LAMBDA e : e.Path = p)

\* the paths that occur in ve
PathsOf(ve) == { ve[k].Path : k \in 1..Len(ve) }

RECURSIVE SumOfLengths(_, _)
SumOfLengths(grouped, paths) ==
    IF paths = {} THEN 0
    ELSE LET p == CHOOSE q \in paths : TRUE
         IN  Len(grouped[p]) + SumOfLengths(grouped, paths \ {p})

\* C21: ErrorsForPath(p) holds exactly the errors whose Path is p, in their
\* order and whole; GroupErrorsByPath()[p] is that same sequence, its keys
\* are the paths that occur and its groups hold every error once; a path
\* without errors gives an empty result; the receiver is left as it was.
C21_ProjectionsAgree ==
    /\ call.op = "ErrorsForPath" =>
          /\ call.result.value = WithPath(call.args.ve, call.args.path)
          /\ call.result.ve = call.args.ve
    /\ call.op = "GroupErrorsByPath" =>
          /\ DOMAIN call.result.value = PathsOf(call.args.ve)
          /\ \A p \in PathsOf(call.args.ve) :
                /\ call.result.value[p] = WithPath(call.args.ve, p)
                /\ call.result.value[p] = ErrorsForPath(call.args.ve, p)
          /\ SumOfLengths(call.result.value, DOMAIN call.result.value)
                = Len(call.args.ve)
          /\ call.result.ve = call.args.ve

\* three errors, two of them of path a with one of path b[1] between them:
\* the group of a holds the two in order
C21_Witness ==
    /\ call.op = "GroupErrorsByPath"
    /\ Len(call.args.ve) = 3
    /\ call.args.ve[1].Path = <<"a">>
    /\ call.args.ve[2].Path # <<"a">>
    /\ call.args.ve[3].Path = <<"a">>
    /\ call.args.ve[1] # call.args.ve[3]
    /\ call.result.value[<<"a">>] = <<call.args.ve[1], call.args.ve[3]>>


\* the field carries the tag with a value
HasTag(field, key) == key \in DOMAIN field.Tag /\ field.Tag[key] # <<>>

\* C22: getRawTagMessage(field, constraint) returns the field's override for
\* the constraint (tag errmsg-<constraint>) when there is one, else the
\* field-wide override (tag errmsg), else the empty string; the override for
\* another constraint is never returned.
C22_TagMessage ==
    call.op = "getRawTagMessage" =>
        LET field == call.args.field
            specific == "errmsg-" \o call.args.constraint
        IN  /\ call.result.value =
                  IF HasTag(field, specific) THEN field.Tag[specific]
                  ELSE IF HasTag(field, "errmsg") THEN field.Tag["errmsg"]
                  ELSE <<>>
            /\ \A c \in Constraints \ {call.args.constraint} :
                  HasTag(field, "errmsg-" \o c)
                      => call.result.value # field.Tag["errmsg-" \o c]

\* the field has an override for required and a field-wide one; for min the
\* field-wide one is returned
C22_Witness ==
    /\ call.op = "getRawTagMessage"
    /\ call.args.constraint = "min"
    /\ HasTag(call.args.field, "errmsg-required")
    /\ HasTag(call.args.field, "errmsg")
    /\ call.result.value = call.args.field.Tag["errmsg"]

FieldLookedUp == call.op = "getStructFieldFromNamespace"

\* the message ValidateCtx gives a failure at the namespace when the registry
\* holds the template r for its path and constraint
MessagesOverRegistry(type, namespace, leaf) ==
    LET err == [Field |-> leaf, Namespace |-> namespace,
                StructNamespace |-> namespace, StructField |-> leaf,
                ActualTag |-> "required", Param |-> <<>>, Value |-> NilValue]
        messages == SetMessage(NewValidationMessages,
                               normalizePath(getFullPath(err)), "required",
                               <<"r">>)
    IN  { e.Message : e \in ValidationErrorsIn(New(1), messages, type, err) }

\* the input types for which ValidateCtx hands structType to the resolver: the
\* type itself unless it is a pointer, and the pointer to it
InputsPassing(structType) ==
    { input \in RootTypes \ {"nil"} :
        (IF Kind(input) = "ptr" THEN Elem(input) ELSE input) = structType }

\* C23: getStructFieldFromNamespace returns a (field, found) pair for every
\* root type (nil, pointer, struct or not), namespace and leaf name, also
\* when the namespace disagrees with the type's shape: it never panics; and
\* when found is false ValidateCtx takes the message of the registry.
C23_ResolverTotal ==
    FieldLookedUp =>
        /\ ~call.result.panic
        /\ ~call.result.found => call.result.field = ZeroStructField
        /\ ~call.result.found =>
              \A input \in InputsPassing(call.args.structType) :
                  MessagesOverRegistry(input, call.args.namespace,
                                       call.args.leaf) = { <<"r">> }

\* U.N[1].E: an index on a string field, then a field of it
C23_Witness ==
    /\ FieldLookedUp
    /\ call.args.structType = "*U"
    /\ call.args.namespace =
          <<"U", ".", "N", "[", "1", "]", ".", "E">>
    /\ ~call.result.found
    /\ ~call.result.panic

\* pointer types unwrapped
RECURSIVE Unwrap(_)
Unwrap(t) == IF Kind(t) = "ptr" THEN Unwrap(Elem(t)) ELSE t

\* the struct type behind the root type of the call
RootStruct ==
    IF Kind(call.args.structType) = "ptr" THEN Elem(call.args.structType)
    ELSE call.args.structType

\* the root type of the call is a struct type or a pointer to one
RootIsStruct ==
    /\ call.args.structType # "nil"
    /\ Kind(RootStruct) = "struct"

\* how a segment fares against the struct type `current`:
\*   "missing"   the struct has no field of the segment's name
\*   "container" Name[<index>] on a field that is neither a sequence nor a
\*               map (whose key may be written in digits), or Name[<key>] on
\*               a field that is no map
\*   else the type the segment leads to: the element type of the sequence,
\*   the value type of the map, or the field's type, pointers unwrapped
StepThrough(current, part) ==
    LET seg == parseSegment(part)
        fs == TypeTable[current].fields
        at == { k \in 1..Len(fs) : fs[k].Name = seg.fieldName }
        ft == Unwrap(fs[CHOOSE k \in at : TRUE].Type)
    IN  IF at = {} THEN "missing"
        ELSE IF seg.arrayIndex >= 0
        THEN (IF Kind(ft) \in {"slice", "array", "map"} THEN Unwrap(Elem(ft))
              ELSE "container")
        ELSE IF seg.isMapKey
        THEN (IF Kind(ft) = "map" THEN Unwrap(Elem(ft)) ELSE "container")
        ELSE ft

\* where the segments parts[from..to] lead from the struct type `current`:
\* a type, or "missing" / "container" / "leaf" (a segment leads to a type
\* that is no struct and another segment follows) at the first segment that
\* cannot be resolved
RECURSIVE WalkThrough(_, _, _, _)
WalkThrough(current, parts, from, to) ==
    IF from > to THEN current
    ELSE IF Kind(current) # "struct" THEN "leaf"
    ELSE LET next == StepThrough(current, parts[from])
         IN  IF next \in {"missing", "container"} THEN next
             ELSE WalkThrough(next, parts, from + 1, to)

CallParts == SplitDots(call.args.namespace)

\* where the segments between the root segment and the last one lead
Intermediate ==
    WalkThrough(RootStruct, CallParts, 2, Len(CallParts) - 1)

\* C24: the resolver reports not-found whenever a segment before the last
\* cannot be resolved against the type: it names a field the struct reached
\* does not have, or it is Name[<index>] on a field that is no sequence or
\* Name[<key>] on a field that is no map (digits in the brackets count as a
\* key when the field is a map).
C24_UnresolvableIsNotFound ==
    (/\ FieldLookedUp
     /\ RootIsStruct
     /\ Len(CallParts) >= 2
     /\ Intermediate \in {"missing", "container"})
        => ~call.result.found

\* the field the last segment names in the struct the others lead to
LeafField ==
    LET fs == TypeTable[Intermediate].fields
    IN  fs[CHOOSE k \in 1..Len(fs) : fs[k].Name = call.args.leaf]

\* the namespace agrees with the shape of the root type: the segments before
\* the last lead to a struct and the last one is the name of a field of it
AgreesWithShape ==
    /\ RootIsStruct
    /\ Len(CallParts) >= 2
    /\ Intermediate \notin {"missing", "container", "leaf"}
    /\ Kind(Intermediate) = "struct"
    /\ CallParts[Len(CallParts)] = call.args.leaf
    /\ \E k \in 1..Len(TypeTable[Intermediate].fields) :
          TypeTable[Intermediate].fields[k].Name = call.args.leaf

\* C25: for a namespace that agrees with the root type's shape the resolver
\* skips the root segment, steps through Name[<digits>] into the element
\* type of the sequence Name and through Name[<key>] into the value type of
\* the map Name, unwraps pointers at each step, and returns found = true with
\* the field the last segment names in the struct the others lead to.
C25_ResolvesShapedNamespace ==
    (FieldLookedUp /\ AgreesWithShape)
        => (call.result.found /\ call.result.field = LeafField)


\* the value a live piece is replaced by, if any: the named value of a name
\* the named pass takes, else the positional entry of an index in range
IsSubstituted(p) ==
    /\ p.kind = "live"
    /\ \/ IsSubstitutableName(p.name) /\ HasNamedValue(p.name)
       \/ IsIndexInRange(p.name)

SubstitutedValue(p) ==
    IF IsSubstitutableName(p.name) /\ HasNamedValue(p.name)
    THEN Rendered(NamedValue(p.name))
    ELSE Sprintf(ipParams[IndexOf(p.name) + 1])

\* what a piece becomes when every stage passes over the template once and
\* leaves the text it has put in alone
SinglePass(p) ==
    IF p.kind = "escaped" THEN Braced(p.name)
    ELSE IF IsSubstituted(p) THEN SubstitutedValue(p)
    ELSE PieceText(p)

RECURSIVE SinglePassAll(_)
SinglePassAll(ps) ==
    IF ps = <<>> THEN <<>> ELSE SinglePass(Head(ps)) \o SinglePassAll(Tail(ps))

\* the template holds no text equal to an escape placeholder
NoSentinelText ==
    \A i \in 1..Len(ipPieces) : ipPieces[i] # Piece("text", EscapedBrace(0))

\* some placeholder of the template is replaced by a value that itself holds
\* a placeholder
SubstitutesPlaceholder ==
    \E i \in 1..Len(ipPieces) :
        IsSubstituted(ipPieces[i]) /\ HasBrace(SubstitutedValue(ipPieces[i]))

\* C26: interpolateParams never works on its own output: each stage passes
\* over the template once, and a substituted value that holds {0}, {field},
\* {value} or {param} is in the result as it is.
C26_NoReprocessing ==
    (Interpolated /\ NoSentinelText /\ SubstitutesPlaceholder)
        => ipOut = SinglePassAll(ipPieces)


\* the template is made of plain text and escaped placeholders, with at
\* least one of the latter
EscapedAndText ==
    /\ PiecesAmong({"text", "escaped"},
                   PieceNames \cup {<<"a">>, EscapedBrace(0)})
    /\ \E i \in 1..Len(ipPieces) : ipPieces[i].kind = "escaped"

\* C27: escape restoration is exact: every escaped sequence {{x}} ends up
\* as {x} at its own position and the rest of the template is untouched,
\* also when the text of the template holds a string equal to the placeholder
\* __ESCAPED_BRACE_0__ that stands for the first escaped sequence.
C27_RestorationExact ==
    (Interpolated /\ Len(ipParams) > 0 /\ EscapedAndText)
        => ipOut = SinglePassAll(ipPieces)

\* C28: interpolateParams is deterministic: for the same template,
\* positional list and overlays there is one string it can return, whatever
\* order the map of named values is iterated in, also when the value of one
\* name holds the placeholder of another name.
C28_Deterministic ==
    Interpolated =>
        Cardinality(interpolateParams(TemplateOf(ipPieces), ipParams,
                                      mergeCustomParams(ipCustom))) = 1


\* the step is a call of ValidateCtx
Validates == last.op = "none" /\ last'.op = "ValidateCtx"

\* C29: Validate and ValidateCtx only read the validator: DefaultMessage,
\* DefaultTagMessages, the registry and CustomParams are after the call what
\* they were before it; the same validation done again returns the same
\* errors; and the error of a failure is what that failure alone yields,
\* whatever other failures the value has.
C29_ValidateReadOnly ==
    [][ Validates =>
          /\ validators' = validators
          /\ tables' = tables
          /\ engines' = engines
          /\ ValidationErrorsFor(validators[last'.v], last'.type,
                                 last'.failures) = { last'.errors }
          /\ \A k \in 1..Len(last'.failures) :
                last'.errors[k] \in
                    ValidationErrorsOf(validators[last'.v], last'.type,
                                       last'.failures[k])
      ]_vars


\* the configuration a table has for a path (the empty one when it has none)
ConfigOf(vm, path) == IF path \in DOMAIN vm THEN vm[path] ELSE NewConfig

\* the template a configuration has for a constraint, or "none"
TemplateIn(config, c) ==
    IF c \in DOMAIN config.Constraints THEN <<config.Constraints[c]>>
    ELSE <<>>

\* the step leaves every table but t, and in t every path but key, as it is
OnlyPathChanged(t, key) ==
    /\ validators' = validators
    /\ engines' = engines
    /\ DOMAIN tables' = DOMAIN tables
    /\ \A u \in DOMAIN tables \ {t} : tables'[u] = tables[u]
    /\ DOMAIN tables'[t] = DOMAIN tables[t] \cup {key}
    /\ \A q \in DOMAIN tables[t] \ {key} : tables'[t][q] = tables[t][q]

\* no (path, constraint) pair of a table loses its template in the step
NoEntryRemoved ==
    \A t \in DOMAIN tables :
        /\ t \in DOMAIN tables'
        /\ \A q \in DOMAIN tables[t] :
              /\ q \in DOMAIN tables'[t]
              /\ DOMAIN tables[t][q].Constraints
                     \subseteq DOMAIN tables'[t][q].Constraints

\* C30: SetConstraintMessage(p, c, m) changes only the template of c under
\* normalizePath(p), and SetPathDefaultMessage(p, m) only the default under
\* normalizePath(p): other paths, the other constraints and (for the first)
\* the default, or (for the second) all templates of the same path,
\* DefaultMessage, DefaultTagMessages and CustomParams are unchanged; and no
\* step removes the template of a (path, constraint) pair.
C30_SettersChangeOwnTarget ==
    [][ /\ NoEntryRemoved
        /\ \A v \in DOMAIN validators, p \in SetterPaths, m \in Templates :
              LET t == validators[v].Messages
                  key == normalizePath(p)
              IN  /\ \A c \in Constraints :
                        SetConstraintMessage(v, p, c, m) =>
                            /\ OnlyPathChanged(t, key)
                            /\ TemplateIn(tables'[t][key], c) = <<m>>
                            /\ tables'[t][key].Default
                                   = ConfigOf(tables[t], key).Default
                            /\ \A d \in Constraints \ {c} :
                                  TemplateIn(tables'[t][key], d)
                                      = TemplateIn(ConfigOf(tables[t], key), d)
                  /\ SetPathDefaultMessage(v, p, m) =>
                        /\ OnlyPathChanged(t, key)
                        /\ tables'[t][key].Default = m
                        /\ tables'[t][key].Constraints
                               = ConfigOf(tables[t], key).Constraints
      ]_vars

\* a path got a template for required and then, under another spelling of
\* the path, a default: both are in the table
C30_Witness ==
    \E t \in DOMAIN tables :
        LET key == <<"I", "[", "]", ".", "N">>
        IN  /\ <<t, key, "required">> \in DOMAIN written
            /\ <<t, key, "">> \in DOMAIN written
            /\ written[<<t, key, "">>].message # <<>>
            /\ key \in DOMAIN tables[t]
            /\ tables[t][key].Default = written[<<t, key, "">>].message
            /\ "required" \in DOMAIN tables[t][key].Constraints
            /\ tables[t][key].Constraints["required"]
                   = written[<<t, key, "required">>].message


=============================================================================
